---- MODULE Spec2Model ----
(***************************************************************************)
(* minimatch-fast: the compiled-pattern cache (src/cache.ts), the public   *)
(* entry points (index.ts, stored after fast-paths.ts), the fast-path      *)
(* layer (src/fast-paths.ts), the Minimatch class                          *)
(* (src/minimatch-class.ts), brace expansion (src/brace-expand.ts) and     *)
(* escape() / unescape() (src/escape.ts, unescape.ts after types.ts).      *)
(*                                                                         *)
(* A JavaScript string is modelled as a sequence of one-character strings: *)
(* the pattern  *.js  is <<"*", ".", "j", "s">>.                           *)
(***************************************************************************)
EXTENDS Integers, Sequences, FiniteSets, TLC

\* ------------------------------------------------------------------------
\* String primitives of the JavaScript runtime used by the code.
\* ------------------------------------------------------------------------

\* s.slice(a, b): 0-based start, end exclusive
Slice(s, a, b) == SubSeq(s, a + 1, b)

\* s.slice(a)
SliceFrom(s, a) == SubSeq(s, a + 1, Len(s))

\* s.charAt(i): the empty string when i is out of range
CharAt(s, i) == IF i + 1 \in 1..Len(s) THEN s[i + 1] ELSE ""

\* s.startsWith(pre)
StartsWith(s, pre) == Len(pre) <= Len(s) /\ SubSeq(s, 1, Len(pre)) = pre

\* s.endsWith(suf)
EndsWith(s, suf) ==
    Len(suf) <= Len(s) /\ SubSeq(s, Len(s) - Len(suf) + 1, Len(s)) = suf

\* s.includes(sub)
Includes(s, sub) ==
    \E i \in 0..(Len(s) - Len(sub)) : SubSeq(s, i + 1, i + Len(sub)) = sub

\* s.lastIndexOf(c) for a single character c: -1 when absent
LastIndexOf(s, c) ==
    IF \E i \in 1..Len(s) : s[i] = c
    THEN (CHOOSE i \in 1..Len(s) :
              s[i] = c /\ \A j \in (i + 1)..Len(s) : s[j] # c) - 1
    ELSE -1

\* s.indexOf(c, from) for a single character c: -1 when absent
IndexOf(s, c, from) ==
    IF \E i \in (from + 1)..Len(s) : s[i] = c
    THEN (CHOOSE i \in (from + 1)..Len(s) :
              s[i] = c /\ \A j \in (from + 1)..(i - 1) : s[j] # c) - 1
    ELSE -1

\* s.replace(/c/g, d) for single characters c and d
ReplaceAll(s, c, d) == [i \in 1..Len(s) |-> IF s[i] = c THEN d ELSE s[i]]

\* One character of s.toLowerCase(), over the letters the model uses
LowerChar(c) ==
    CASE c = "A" -> "a"
      [] c = "B" -> "b"
      [] c = "J" -> "j"
      [] c = "S" -> "s"
      [] OTHER -> c

\* s.toLowerCase()
ToLowerCase(s) == [i \in 1..Len(s) |-> LowerChar(s[i])]

\* s.split('/')
RECURSIVE SplitSlash(_)
SplitSlash(s) ==
    LET i == IndexOf(s, "/", 0)
    IN  IF i = -1 THEN <<s>>
        ELSE <<Slice(s, 0, i)>> \o SplitSlash(SliceFrom(s, i + 1))

\* parts.filter((p) => p !== '')
RECURSIVE NonEmptyParts(_)
NonEmptyParts(parts) ==
    IF parts = <<>> THEN <<>>
    ELSE (IF Head(parts) = <<>> THEN <<>> ELSE <<Head(parts)>>)
         \o NonEmptyParts(Tail(parts))

\* [...new Set(list)]: duplicates removed, first-seen order kept
RECURSIVE Unique(_)
Unique(list) ==
    IF list = <<>> THEN <<>>
    ELSE LET init == Unique(SubSeq(list, 1, Len(list) - 1))
             last == list[Len(list)]
         IN  IF \E i \in 1..Len(init) : init[i] = last
             THEN init ELSE Append(init, last)

\* ------------------------------------------------------------------------
\* Options (MinimatchOptions).  An unset boolean option is FALSE; an unset
\* platform is ""; allowWindowsEscape is TRUE unless it is set to false;
\* maxLength is a tagged value so that NaN and Infinity can be told apart.
\* ------------------------------------------------------------------------
NoMaxLength == [kind |-> "undefined", n |-> 0]

NumMaxLength(n) == [kind |-> "number", n |-> n]

DefaultOptions ==
    [nocase |-> FALSE, dot |-> FALSE, noglobstar |-> FALSE,
     nobrace |-> FALSE, noext |-> FALSE, nonegate |-> FALSE,
     nocomment |-> FALSE, matchBase |-> FALSE, flipNegate |-> FALSE,
     windowsPathsNoEscape |-> FALSE, preserveMultipleSlashes |-> FALSE,
     partial |-> FALSE, platform |-> "", allowWindowsEscape |-> TRUE,
     nonull |-> FALSE, failglob |-> FALSE, maxLength |-> NoMaxLength,
     optimizationLevel |-> 1, magicalBraces |-> FALSE]

\* the platform of the host process
defaultPlatform == "linux"

isWindows(platform) ==
    (IF platform # "" THEN platform ELSE defaultPlatform) = "win32"

getPlatform == defaultPlatform

normalizePath(path, windowsPathsNoEscape) ==
    IF windowsPathsNoEscape THEN ReplaceAll(path, "\\", "/") ELSE path

normalizePattern(pattern, windowsPathsNoEscape) ==
    IF windowsPathsNoEscape THEN ReplaceAll(pattern, "\\", "/") ELSE pattern

slashSplit(p, preserveMultipleSlashes, isWindowsPlatform) ==
    IF p = <<>> THEN << <<>> >>
    ELSE IF preserveMultipleSlashes THEN SplitSlash(p)
    ELSE IF /\ isWindowsPlatform
            /\ Len(p) >= 3 /\ p[1] = "/" /\ p[2] = "/" /\ p[3] # "/"
         THEN << <<>>, <<>> >> \o NonEmptyParts(Tail(SplitSlash(p)))
    ELSE IF StartsWith(p, <<"/">>)
         THEN << <<>> >> \o NonEmptyParts(SplitSlash(p))
    ELSE NonEmptyParts(SplitSlash(p))

\* ------------------------------------------------------------------------
\* The external segment compiler (the picomatch package), modelled at its
\* interface for globs made of literal characters, '.', '/', '*', '?' and
\* backslash escapes.  A glob is lexed into tokens, the tokens are grouped
\* into path segments, and a matcher walks the segments.
\* ------------------------------------------------------------------------

\* the largest glob the segment compiler accepts
PICO_MAX_LENGTH == 65536

\* translateOptions: the options handed to the segment compiler
translateOptions(opts) ==
    [dot |-> opts.dot, nocase |-> opts.nocase, nonegate |-> opts.nonegate,
     noglobstar |-> opts.noglobstar, nobrace |-> opts.nobrace,
     noextglob |-> opts.noext, basename |-> opts.matchBase,
     posix |-> TRUE, maxLength |-> opts.maxLength]

\* the number of consecutive '*' characters of glob starting at index i
RECURSIVE StarRun(_, _)
StarRun(glob, i) ==
    IF i <= Len(glob) /\ glob[i] = "*" THEN 1 + StarRun(glob, i + 1) ELSE 0

PicoTok(type, c, look, one) ==
    [type |-> type, c |-> c, look |-> look, one |-> one]

\* The general tokenizer.  prev is the type of the previous token ("bos" at
\* the start).  A star token carries the lookahead that guards it:
\* "nodot" (next character is not '.'), "nodots" (the rest of the segment is
\* not '.' or '..'), "nodotslash" (the rest of the segment is neither empty
\* nor '.'), and whether at least one more character is required.
RECURSIVE PicoLex(_, _, _, _)
PicoLex(glob, i, prev, po) ==
    IF i > Len(glob) THEN <<>>
    ELSE LET c == glob[i] IN
      CASE c = "\\" ->
             IF i = Len(glob)
             THEN <<PicoTok("text", "\\", "none", FALSE)>>
             ELSE IF glob[i + 1] \in {"/", "."}
                  THEN PicoLex(glob, i + 1, prev, po)
                  ELSE <<PicoTok("text", glob[i + 1], "none", FALSE)>>
                       \o PicoLex(glob, i + 2, "text", po)
        [] c = "/" ->
             <<PicoTok("slash", "/", "none", FALSE)>>
             \o PicoLex(glob, i + 1, "slash", po)
        [] c = "." ->
             IF prev \in {"bos", "slash"}
             THEN <<PicoTok("text", ".", "none", FALSE)>>
                  \o PicoLex(glob, i + 1, "dot", po)
             ELSE <<PicoTok("text", ".", "none", FALSE)>>
                  \o PicoLex(glob, i + 1, "text", po)
        [] c = "?" ->
             <<PicoTok("qmark", "?",
                       IF ~po.dot /\ prev \in {"bos", "slash"}
                       THEN "nodot" ELSE "none", FALSE)>>
             \o PicoLex(glob, i + 1, "qmark", po)
        [] c = "*" ->
             LET n == StarRun(glob, i)
                 atEnd == i + n > Len(glob) \/ glob[i + n] = "/"
                 atStart == prev \in {"bos", "slash", "dot"}
             IN  IF n = 2 /\ ~po.noglobstar /\ prev \in {"bos", "slash"}
                    /\ atEnd
                 THEN <<PicoTok("globstar", "*", "none", FALSE)>>
                      \o PicoLex(glob, i + n, "globstar", po)
                 ELSE <<PicoTok("star", "*",
                                IF ~atStart THEN "none"
                                ELSE IF prev = "dot" THEN "nodotslash"
                                ELSE IF po.dot THEN "nodots"
                                ELSE "nodot",
                                atStart /\ n = 1)>>
                      \o PicoLex(glob, i + n, "star", po)
        [] OTHER ->
             <<PicoTok("text", c, "none", FALSE)>>
             \o PicoLex(glob, i + 1, "text", po)

\* The compiler's shortcut outputs for the whole globs '.*' and '*.*'; every
\* other glob goes through the general tokenizer.
PicoTokens(glob, po) ==
    IF glob = <<".", "*">>
    THEN <<PicoTok("text", ".", "none", FALSE),
           PicoTok("star", "*", "none", TRUE)>>
    ELSE IF glob = <<"*", ".", "*">>
    THEN <<PicoTok("star", "*", IF po.dot THEN "nodots" ELSE "nodot", FALSE),
           PicoTok("text", ".", "none", FALSE),
           PicoTok("star", "*", "none", TRUE)>>
    ELSE PicoLex(glob, 1, "bos", po)

\* tokens split into segments at the slash tokens
RECURSIVE PicoSegments(_)
PicoSegments(toks) ==
    IF \E i \in 1..Len(toks) : toks[i].type = "slash"
    THEN LET i == CHOOSE k \in 1..Len(toks) :
                      /\ toks[k].type = "slash"
                      /\ \A j \in 1..(k - 1) : toks[j].type # "slash"
         IN  <<SubSeq(toks, 1, i - 1)>>
             \o PicoSegments(SubSeq(toks, i + 1, Len(toks)))
    ELSE <<toks>>

PicoCharEq(a, b, po) ==
    IF po.nocase THEN LowerChar(a) = LowerChar(b) ELSE a = b

\* the lookahead of a star or question-mark token, at position j of seg
PicoLook(look, seg, j) ==
    LET rest == SubSeq(seg, j, Len(seg))
    IN  CASE look = "nodot" -> ~StartsWith(rest, <<".">>)
          [] look = "nodots" -> rest # <<".">> /\ rest # <<".", ".">>
          [] look = "nodotslash" -> rest # <<>> /\ rest # <<".">>
          [] OTHER -> TRUE

\* tokens toks[i..] of one segment match seg[j..] to its end
RECURSIVE PicoSegMatch(_, _, _, _, _)
PicoSegMatch(toks, i, seg, j, po) ==
    IF i > Len(toks) THEN j > Len(seg)
    ELSE LET t == toks[i] IN
      CASE t.type = "text" ->
             /\ j <= Len(seg)
             /\ PicoCharEq(seg[j], t.c, po)
             /\ PicoSegMatch(toks, i + 1, seg, j + 1, po)
        [] t.type = "qmark" ->
             /\ j <= Len(seg)
             /\ PicoLook(t.look, seg, j)
             /\ PicoSegMatch(toks, i + 1, seg, j + 1, po)
        [] OTHER ->
             /\ PicoLook(t.look, seg, j)
             /\ t.one => j <= Len(seg)
             /\ \E k \in j..(Len(seg) + 1) :
                    PicoSegMatch(toks, i + 1, seg, k, po)

PicoIsGlobstar(pseg) == Len(pseg) = 1 /\ pseg[1].type = "globstar"

\* a path segment a globstar may swallow
PicoGlobstarOk(seg, po) ==
    IF po.dot THEN seg # <<".">> /\ seg # <<".", ".">>
    ELSE ~StartsWith(seg, <<".">>)

\* pattern segments ps[i..] match file segments fs[j..]
RECURSIVE PicoSegsMatch(_, _, _, _, _)
PicoSegsMatch(ps, i, fs, j, po) ==
    IF i > Len(ps)
    THEN \/ j > Len(fs)
         \/ /\ j = Len(fs) /\ fs[j] = <<>> /\ j > 1
            /\ LET last == ps[Len(ps)]
               IN  last # <<>> /\ last[Len(last)].type \in {"star", "globstar"}
    ELSE IF PicoIsGlobstar(ps[i])
    THEN \/ /\ i = Len(ps) /\ i > 1 /\ j > Len(fs)
         \/ \E k \in j..(Len(fs) + 1) :
              /\ \A m \in j..(k - 1) : PicoGlobstarOk(fs[m], po)
              /\ IF i = Len(ps) THEN k = Len(fs) + 1
                 ELSE PicoSegsMatch(ps, i + 1, fs, k, po)
    ELSE /\ j <= Len(fs)
         /\ PicoSegMatch(ps[i], 1, fs[j], 1, po)
         /\ PicoSegsMatch(ps, i + 1, fs, j + 1, po)

\* the compiled regular expression of glob, applied to str
PicoRegexTest(str, glob, po) ==
    PicoSegsMatch(PicoSegments(PicoTokens(glob, po)), 1, SplitSlash(str), 1, po)

\* the size limit of the compiler: Math.min(MAX_LENGTH, opts.maxLength) when
\* maxLength is a number (NaN compares false with everything)
PicoThrows(glob, po) ==
    \/ glob = <<>>
    \/ CASE po.maxLength.kind = "number" ->
              Len(glob) > (IF po.maxLength.n < PICO_MAX_LENGTH
                           THEN po.maxLength.n ELSE PICO_MAX_LENGTH)
         [] po.maxLength.kind = "NaN" -> FALSE
         [] OTHER -> Len(glob) > PICO_MAX_LENGTH

\* the last segment of a path, a trailing slash ignored
PicoBasename(str) ==
    LET segs == NonEmptyParts(SplitSlash(str))
    IN  IF segs = <<>> THEN <<>> ELSE segs[Len(segs)]

\* picomatch(glob, picoOpts)(str): the empty input never matches, an input
\* equal to the glob always does, otherwise the regular expression decides
picomatch(glob, po, str) ==
    /\ str # <<>>
    /\ \/ str = glob
       \/ IF po.basename THEN PicoRegexTest(PicoBasename(str), glob, po)
          ELSE PicoRegexTest(str, glob, po)

\* ------------------------------------------------------------------------
\* Brace expansion (src/brace-expand.ts).  A cache is a sequence of
\* [key, value] records in the insertion order of the JavaScript Map.
\* ------------------------------------------------------------------------

\* capacity of the brace cache (200 in the source, scaled for checking)
BRACE_CACHE_SIZE == 2

\* the cap on an expansion's length (10000 in the source, scaled for
\* checking)
MAX_EXPANSION_LENGTH == 3

\* map.has(key)
MapHas(map, key) == \E i \in 1..Len(map) : map[i].key = key

\* map.get(key), for a key the map holds
MapGet(map, key) == map[CHOOSE i \in 1..Len(map) : map[i].key = key].value

\* map.delete(key)
MapDelete(map, key) == SelectSeq(map, LAMBDA e : e.key # key)

\* map.set(key, value): an existing key keeps its position
MapSet(map, key, value) ==
    IF MapHas(map, key)
    THEN [i \in 1..Len(map) |->
            IF map[i].key = key THEN [key |-> key, value |-> value]
            ELSE map[i]]
    ELSE Append(map, [key |-> key, value |-> value])

addToBraceCache(bc, pattern, result) ==
    MapSet(IF Len(bc) >= BRACE_CACHE_SIZE THEN Tail(bc) ELSE bc,
           pattern, result)

\* content.split(',')
RECURSIVE SplitComma(_)
SplitComma(s) ==
    LET i == IndexOf(s, ",", 0)
    IN  IF i = -1 THEN <<s>>
        ELSE <<Slice(s, 0, i)>> \o SplitComma(SliceFrom(s, i + 1))

\* SIMPLE_BRACE_RE: prefix{content}suffix with a single '{', a non-empty
\* content without braces, and no '{' in the suffix
SimpleBraceMatches(pattern) ==
    LET open == IndexOf(pattern, "{", 0)
        close == IndexOf(pattern, "}", open + 1)
    IN  /\ open # -1
        /\ close > open + 1
        /\ IndexOf(pattern, "{", open + 1) = -1

\* trySimpleBraceExpand: <<>> stands for null (a match has one item at least)
trySimpleBraceExpand(pattern) ==
    IF ~SimpleBraceMatches(pattern) THEN <<>>
    ELSE LET open == IndexOf(pattern, "{", 0)
             close == IndexOf(pattern, "}", open + 1)
             prefix == Slice(pattern, 0, open)
             content == Slice(pattern, open + 1, close)
             suffix == SliceFrom(pattern, close + 1)
             items == SplitComma(content)
         IN  IF Includes(content, <<".", ".">>) THEN <<>>
             ELSE [i \in 1..Len(items) |-> prefix \o items[i] \o suffix]

\* The general expander (the braces package, called with expand: true) for
\* the patterns the simple shortcut refuses: groups of comma-separated
\* alternatives, nested or one after another, and ranges of single digits.
\* A group without a comma that is no range stays literal.  The patterns of
\* the model carry no backslash escapes and no range of more than ten items,
\* so the package never throws here.

\* the position (from 1) of the '}' that closes the group opened before i
RECURSIVE BraceClose(_, _, _)
BraceClose(s, i, depth) ==
    IF i > Len(s) THEN 0
    ELSE IF s[i] = "{" THEN BraceClose(s, i + 1, depth + 1)
    ELSE IF s[i] = "}"
    THEN (IF depth = 1 THEN i ELSE BraceClose(s, i + 1, depth - 1))
    ELSE BraceClose(s, i + 1, depth)

\* the position of the first '{' that has a closing '}', 0 when there is none
FirstGroup(s) ==
    IF \E p \in 1..Len(s) : s[p] = "{" /\ BraceClose(s, p + 1, 1) # 0
    THEN CHOOSE p \in 1..Len(s) :
             /\ s[p] = "{" /\ BraceClose(s, p + 1, 1) # 0
             /\ \A q \in 1..(p - 1) :
                    ~(s[q] = "{" /\ BraceClose(s, q + 1, 1) # 0)
    ELSE 0

\* a group's content split at the commas outside nested groups
RECURSIVE TopSplit(_, _, _, _)
TopSplit(s, i, depth, cur) ==
    IF i > Len(s) THEN <<cur>>
    ELSE IF s[i] = "," /\ depth = 0
    THEN <<cur>> \o TopSplit(s, i + 1, 0, <<>>)
    ELSE TopSplit(s, i + 1,
                  IF s[i] = "{" THEN depth + 1
                  ELSE IF s[i] = "}" THEN depth - 1 ELSE depth,
                  Append(cur, s[i]))

Digits == <<"0", "1", "2", "3", "4", "5", "6", "7", "8", "9">>

IsDigit(c) == \E d \in 1..Len(Digits) : Digits[d] = c

DigitValue(c) == (CHOOSE d \in 1..Len(Digits) : Digits[d] = c) - 1

\* a content of the shape  m..n  with single digits m and n
IsRange(content) ==
    /\ Len(content) = 4
    /\ IsDigit(content[1]) /\ content[2] = "." /\ content[3] = "."
    /\ IsDigit(content[4])

\* the items of the range  m..n, counted up or down
RangeItems(m, n) ==
    IF m <= n THEN [k \in 1..(n - m + 1) |-> <<Digits[m + k]>>]
    ELSE [k \in 1..(m - n + 1) |-> <<Digits[m - k + 2]>>]

\* list.flat()
RECURSIVE Flatten(_)
Flatten(lists) ==
    IF lists = <<>> THEN <<>> ELSE Head(lists) \o Flatten(Tail(lists))

\* every alternative of the group between the prefix and every expansion of
\* what follows the group, the alternatives in their written order
braces_join(prefix, alts, tails) ==
    [n \in 1..(Len(alts) * Len(tails)) |->
        prefix \o alts[((n - 1) \div Len(tails)) + 1]
               \o tails[((n - 1) % Len(tails)) + 1]]

RECURSIVE braces(_), braces_alts(_, _), braces_literal(_)

\* the expansions of a group's content, given its top-level pieces
braces_alts(content, pieces) ==
    IF Len(pieces) > 1
    THEN Flatten([k \in 1..Len(pieces) |-> braces(pieces[k])])
    ELSE IF IsRange(content)
    THEN RangeItems(DigitValue(content[1]), DigitValue(content[4]))
    ELSE braces_literal(braces(content))

\* a group that is kept: its braces around each expansion of its content
braces_literal(inner) ==
    [k \in 1..Len(inner) |-> <<"{">> \o inner[k] \o <<"}">>]

\* braces(pattern, {expand: true}) for the group opened at position open
braces_group(s, open, close) ==
    braces_join(SubSeq(s, 1, open - 1),
                braces_alts(SubSeq(s, open + 1, close - 1),
                            TopSplit(SubSeq(s, open + 1, close - 1),
                                     1, 0, <<>>)),
                braces(SubSeq(s, close + 1, Len(s))))

braces_from(s, open) ==
    IF open = 0 THEN <<s>>
    ELSE braces_group(s, open, BraceClose(s, open + 1, 1))

braces(pattern) == braces_from(pattern, FirstGroup(pattern))

\* [...result]: the key of the cache entry whose array the returned array
\* is; <<>> because the spread builds a new array
SpreadCopy_same(pattern) == pattern

SpreadCopy(pattern) == <<>>

\* braceExpand past the cache lookup, given the general expander's list
braceExpand_general(pattern, bc, expanded) ==
    IF Len(expanded) > MAX_EXPANSION_LENGTH
    THEN [result |-> <<pattern>>, cache |-> bc, shares |-> <<>>]
    ELSE [result |-> IF Len(Unique(expanded)) > 0 THEN Unique(expanded)
                     ELSE <<pattern>>,
          cache |-> addToBraceCache(
                        bc, pattern,
                        IF Len(Unique(expanded)) > 0 THEN Unique(expanded)
                        ELSE <<pattern>>),
          shares |-> SpreadCopy(pattern)]

\* braceExpand on a cache miss, given the simple shortcut's answer
braceExpand_miss(pattern, bc, fastResult) ==
    IF fastResult # <<>>
    THEN [result |-> fastResult,
          cache |-> addToBraceCache(bc, pattern, fastResult),
          shares |-> SpreadCopy(pattern)]
    ELSE braceExpand_general(pattern, bc, braces(pattern))

\* braceExpand: the list returned, the brace cache afterwards, and the key
\* of the cache entry the returned array is shared with (<<>> for none)
braceExpand(pattern, options, bc) ==
    IF options.nobrace
    THEN [result |-> <<pattern>>, cache |-> bc, shares |-> <<>>]
    ELSE IF \/ IndexOf(pattern, "{", 0) = -1
            \/ IndexOf(pattern, "}", IndexOf(pattern, "{", 0)) = -1
    THEN [result |-> <<pattern>>, cache |-> bc, shares |-> <<>>]
    ELSE IF MapHas(bc, pattern)
    THEN [result |-> MapGet(bc, pattern), cache |-> bc,
          shares |-> SpreadCopy(pattern)]
    ELSE braceExpand_miss(pattern, bc, trySimpleBraceExpand(pattern))

\* ------------------------------------------------------------------------
\* The Minimatch class (src/minimatch-class.ts).
\* ------------------------------------------------------------------------

\* the built-in pattern length limit (65536 in the source, scaled)
MAX_PATTERN_LENGTH == 6

\* parseNegate: the negate flag and the pattern without its leading '!' run
RECURSIVE CountBang(_, _)
CountBang(pattern, i) ==
    IF i < Len(pattern) /\ CharAt(pattern, i) = "!"
    THEN 1 + CountBang(pattern, i + 1) ELSE 0

\* parseNegate setting negate for any run of '!', even or odd
parseNegate_anyRun(pattern, nonegate) ==
    IF nonegate THEN [negate |-> FALSE, pattern |-> pattern]
    ELSE [negate |-> CountBang(pattern, 0) > 0,
          pattern |-> SliceFrom(pattern, CountBang(pattern, 0))]

parseNegate(pattern, nonegate) ==
    IF nonegate THEN [negate |-> FALSE, pattern |-> pattern]
    ELSE LET negateOffset == CountBang(pattern, 0)
         IN  [negate |-> negateOffset % 2 = 1,
              pattern |-> SliceFrom(pattern, negateOffset)]

\* preprocess, one path: the reduce of the optimization pass
RECURSIVE OptimizeParts(_, _)
OptimizeParts(parts, set) ==
    IF parts = <<>> THEN set
    ELSE LET part == Head(parts)
             hasPrev == set # <<>>
             prev == IF hasPrev THEN set[Len(set)] ELSE <<>>
         IN  IF part = <<"*", "*">> /\ hasPrev /\ prev = <<"*", "*">>
             THEN OptimizeParts(Tail(parts), set)
             ELSE IF /\ part = <<".", ".">>
                     /\ hasPrev /\ prev # <<>>
                     /\ prev # <<".", ".">> /\ prev # <<".">>
                     /\ prev # <<"*", "*">>
             THEN OptimizeParts(Tail(parts), SubSeq(set, 1, Len(set) - 1))
             ELSE OptimizeParts(Tail(parts), Append(set, part))

\* (a variant that drops a pattern whose parts all cancel out)
preprocess_dropEmpty(globParts, options) ==
    SelectSeq([i \in 1..Len(globParts) |->
                 OptimizeParts(globParts[i], <<>>)],
              LAMBDA parts : Len(parts) > 0)

preprocess(globParts, options) ==
    LET unstarred ==
            IF options.noglobstar
            THEN [i \in 1..Len(globParts) |->
                    [j \in 1..Len(globParts[i]) |->
                       IF globParts[i][j] = <<"*", "*">> THEN <<"*">>
                       ELSE globParts[i][j]]]
            ELSE globParts
    IN  IF options.optimizationLevel >= 1
        THEN [i \in 1..Len(unstarred) |->
                LET parts == OptimizeParts(unstarred[i], <<>>)
                IN  IF Len(parts) = 0 THEN << <<>> >> ELSE parts]
        ELSE unstarred

\* parse: one pattern part becomes the globstar marker, the empty string, a
\* compiled expression or false
parse(part, picoOpts) ==
    IF part = <<"*", "*">> THEN [type |-> "GLOBSTAR", src |-> part]
    ELSE IF part = <<>> THEN [type |-> "string", src |-> part]
    ELSE IF PicoThrows(part, picoOpts) THEN [type |-> "false", src |-> part]
    ELSE [type |-> "regex", src |-> part]

\* preprocessPattern: pattern.replace(/\[\\b\]/g, '[b]')
RECURSIVE preprocessPattern(_)
preprocessPattern(pattern) ==
    IF pattern = <<>> THEN <<>>
    ELSE IF StartsWith(pattern, <<"[", "\\", "b", "]">>)
    THEN <<"[", "b", "]">> \o preprocessPattern(SliceFrom(pattern, 4))
    ELSE <<Head(pattern)>> \o preprocessPattern(Tail(pattern))

\* /\[\^[^\]]+\]/.test(pattern)
HasNegatedCharClass(pattern) ==
    \E i \in 1..Len(pattern) : \E k \in (i + 3)..Len(pattern) :
        /\ pattern[i] = "[" /\ pattern[i + 1] = "^" /\ pattern[k] = "]"
        /\ \A j \in (i + 2)..(k - 1) : pattern[j] # "]"

\* /\*\*\/\.[^/]+\/\*\*/.test(pattern)
RequiresTrailingSlash(pattern) ==
    \E i \in 1..Len(pattern) : \E k \in (i + 5)..Len(pattern) :
        /\ k + 2 <= Len(pattern)
        /\ SubSeq(pattern, i, i + 3) = <<"*", "*", "/", ".">>
        /\ SubSeq(pattern, k, k + 2) = <<"/", "*", "*">>
        /\ \A j \in (i + 4)..(k - 1) : pattern[j] # "/"

\* make(), last step: the matchers and the parsed set
make_compiled(neg, globSet, globParts, picoOpts, bcAfter) ==
    [comment |-> FALSE, empty |-> FALSE, negate |-> neg.negate,
     pattern |-> neg.pattern, globSet |-> globSet, globParts |-> globParts,
     matchers |->
        [i \in 1..Len(globSet) |->
           [glob |-> preprocessPattern(globSet[i]),
            never |-> PicoThrows(preprocessPattern(globSet[i]), picoOpts)]],
     set |-> SelectSeq([i \in 1..Len(globParts) |->
                          [j \in 1..Len(globParts[i]) |->
                             parse(globParts[i][j], picoOpts)]],
                       LAMBDA s : \A j \in 1..Len(s) : s[j].type # "false"),
     braceCache |-> bcAfter]

\* make(), from the brace expansion be: globSet, rawGlobParts, globParts
make_expanded(neg, be, options, picoOpts, platformIsWindows) ==
    make_compiled(neg, Unique(be.result),
                  preprocess([i \in 1..Len(Unique(be.result)) |->
                                slashSplit(Unique(be.result)[i],
                                           options.preserveMultipleSlashes,
                                           platformIsWindows)],
                             options),
                  picoOpts, be.cache)

\* make(), from parseNegate on
make_negated(neg, options, picoOpts, platformIsWindows, bc) ==
    make_expanded(neg, braceExpand(neg.pattern, options, bc), options,
                  picoOpts, platformIsWindows)

\* make(): the fields it computes from the normalized pattern
make(pattern, options, picoOpts, platformIsWindows, bc) ==
    IF ~options.nocomment /\ CharAt(pattern, 0) = "#"
    THEN [comment |-> TRUE, empty |-> FALSE, negate |-> FALSE,
          pattern |-> pattern, globSet |-> <<>>, globParts |-> <<>>,
          matchers |-> <<>>, set |-> <<>>, braceCache |-> bc]
    ELSE IF pattern = <<>>
    THEN [comment |-> FALSE, empty |-> TRUE, negate |-> FALSE,
          pattern |-> pattern, globSet |-> <<>>, globParts |-> <<>>,
          matchers |-> <<>>, set |-> <<>>, braceCache |-> bc]
    ELSE make_negated(parseNegate(pattern, options.nonegate), options,
                      picoOpts, platformIsWindows, bc)

\* this.platform
Minimatch_platform(options) ==
    IF options.platform # "" THEN options.platform ELSE getPlatform

\* this.windowsPathsNoEscape
Minimatch_windowsPathsNoEscape(options) ==
    options.windowsPathsNoEscape \/ ~options.allowWindowsEscape

\* the instance the constructor leaves, made being what make() computed
Minimatch_instance(options, made) ==
    [threw |-> "",
     mm |-> [pattern |-> made.pattern,
             options |-> options,
             set |-> made.set,
             negate |-> made.negate,
             comment |-> made.comment,
             empty |-> made.empty,
             preserveMultipleSlashes |-> options.preserveMultipleSlashes,
             partial |-> options.partial,
             globSet |-> made.globSet,
             globParts |-> made.globParts,
             nocase |-> options.nocase,
             isWindows |-> isWindows(Minimatch_platform(options)),
             platform |-> Minimatch_platform(options),
             regexp |-> "null",
             windowsPathsNoEscape |-> Minimatch_windowsPathsNoEscape(options),
             nonegate |-> options.nonegate,
             picoOpts |-> translateOptions(options),
             matchers |-> made.matchers,
             hasNegatedCharClassCached |-> HasNegatedCharClass(made.pattern),
             requiresTrailingSlashCached |->
                 RequiresTrailingSlash(made.pattern),
             patternBasename |->
                 IF LastIndexOf(made.pattern, "/") >= 0
                 THEN SliceFrom(made.pattern,
                                LastIndexOf(made.pattern, "/") + 1)
                 ELSE made.pattern],
     braceCache |-> made.braceCache]

\* new Minimatch(pattern, options): threw is "" when the constructor
\* returns, and then mm is the instance; braceCache is the brace cache
\* afterwards
Minimatch(pattern, options, bc) ==
    IF Len(pattern) > MAX_PATTERN_LENGTH
    THEN [threw |-> "TypeError", mm |-> <<>>, braceCache |-> bc]
    ELSE Minimatch_instance(
             options,
             make(IF Minimatch_windowsPathsNoEscape(options)
                  THEN normalizePattern(pattern, TRUE) ELSE pattern,
                  options, translateOptions(options),
                  isWindows(Minimatch_platform(options)), bc))

\* one element of _matchers applied to a path
Matcher(mm, i, path) ==
    /\ ~mm.matchers[i].never
    /\ picomatch(mm.matchers[i].glob, mm.picoOpts, path)

\* the loop of match() that looks for  **, dot directory, **  in the pattern
DotDirBeforeGlobstar(pattern, path) ==
    LET patternParts == SplitSlash(pattern)
        pathParts == SplitSlash(path)
        lastPathPart == pathParts[Len(pathParts)]
    IN  \E i \in 1..(Len(patternParts) - 1) :
          /\ patternParts[i] = <<"*", "*">>
          /\ StartsWith(patternParts[i + 1], <<".">>)
          /\ i + 2 <= Len(patternParts)
          /\ patternParts[i + 2] = <<"*", "*">>
          /\ lastPathPart = patternParts[i + 1]

\* match(): path.slice(path.lastIndexOf('/') + 1), or the path
match_basename(path) ==
    IF LastIndexOf(path, "/") >= 0
    THEN SliceFrom(path, LastIndexOf(path, "/") + 1) ELSE path

\* match(): the path without one trailing slash
match_pathWithoutTrailingSlash(path) ==
    IF EndsWith(path, <<"/">>) /\ Len(path) > 1
    THEN Slice(path, 0, Len(path) - 1) ELSE path

\* match(): whether some matcher accepts the path
match_some(mm, path) ==
    IF mm.options.matchBase /\ ~Includes(path, <<"/">>)
    THEN \E i \in 1..Len(mm.matchers) : Matcher(mm, i, path)
    ELSE IF mm.options.matchBase
    THEN \E i \in 1..Len(mm.matchers) :
             Matcher(mm, i, path) \/ Matcher(mm, i, match_basename(path))
    ELSE \E i \in 1..Len(mm.matchers) :
             \/ Matcher(mm, i, path)
             \/ Matcher(mm, i, match_pathWithoutTrailingSlash(path))

\* match(): the two adjustments of the matchers' answer, then negation
match_adjusted(mm, path, matches) ==
    IF /\ matches /\ ~mm.options.dot /\ mm.hasNegatedCharClassCached
       /\ StartsWith(match_basename(path), <<".">>)
    THEN (IF mm.options.flipNegate THEN FALSE ELSE mm.negate)
    ELSE IF /\ matches /\ mm.requiresTrailingSlashCached
            /\ ~EndsWith(path, <<"/">>)
            /\ DotDirBeforeGlobstar(mm.pattern, path)
    THEN (IF mm.options.flipNegate THEN FALSE ELSE mm.negate)
    ELSE IF mm.options.flipNegate THEN matches
    ELSE IF mm.negate THEN ~matches ELSE matches

\* match(), on the normalized path
match_normalized(mm, path) ==
    IF /\ match_basename(path) \in {<<".">>, <<".", ".">>}
       /\ mm.patternBasename # match_basename(path)
       /\ mm.patternBasename
             # <<".", "*">> \o SliceFrom(match_basename(path), 1)
       /\ ~Includes(mm.pattern, match_basename(path))
    THEN mm.negate
    ELSE match_adjusted(mm, path, match_some(mm, path))

\* Minimatch.match(path, partial)
Minimatch_match(mm, rawPath, partial) ==
    IF mm.comment THEN FALSE
    ELSE IF mm.empty THEN rawPath = <<>>
    ELSE IF rawPath = <<"/">> /\ partial THEN TRUE
    ELSE match_normalized(
             mm,
             IF /\ mm.windowsPathsNoEscape \/ mm.isWindows
                /\ Includes(rawPath, <<"\\">>)
             THEN normalizePath(rawPath, TRUE) ELSE rawPath)

\* hasMagic(): TRUE with magicalBraces and several expanded patterns, else
\* TRUE when some part of the set is not a string
hasMagic(mm) ==
    IF mm.options.magicalBraces /\ Len(mm.set) > 1 THEN TRUE
    ELSE \E i \in 1..Len(mm.set) :
           \E j \in 1..Len(mm.set[i]) : mm.set[i][j].type # "string"

\* Minimatch.makeRe(): the memoized value of regexp afterwards ("regex"
\* stands for the compiled expression, "false" for false)
Minimatch_makeRe(mm) ==
    IF mm.regexp # "null" THEN mm.regexp
    ELSE IF mm.comment \/ mm.empty THEN "false"
    ELSE IF Len(mm.set) = 0 THEN "false"
    ELSE IF \A i \in 1..Len(mm.globSet) : PicoThrows(mm.globSet[i], mm.picoOpts)
    THEN "false"
    ELSE "regex"

\* ------------------------------------------------------------------------
\* Minimatch.matchOne (src/minimatch-class.ts 611-723): a file, an array of
\* path segments, against a pattern, an array of parsed parts.  The value
\* is a record: ret is what the call returns ("throw" for the final throw),
\* swallowed lists the file segments a GLOBSTAR part consumed on the way to
\* a true result, depth counts the nested calls of matchOne below this one.
\* ------------------------------------------------------------------------

MatchOneResult(ret, swallowed, depth) ==
    [ret |-> ret, swallowed |-> swallowed, depth |-> depth]

MatchOneBool(b) == IF b THEN "true" ELSE "false"

\* ** at the end, ignoring '.' and '..' only when they start a dotfile test
matchOne_endStop_dotfilesOnly(f, options) ==
    ~options.dot /\ CharAt(f, 0) = "."

\* file[fi] === '.' || file[fi] === '..' ||
\* (!options.dot && file[fi].charAt(0) === '.')
matchOne_endStop(f, options) ==
    \/ f = <<".">>
    \/ f = <<".", ".">>
    \/ ~options.dot /\ CharAt(f, 0) = "."

\* the swallow test without the dotfile clause
matchOne_swallowStop_dotsOnly(swallowee, options) ==
    \/ swallowee = <<".">>
    \/ swallowee = <<".", ".">>

\* swallowee === '.' || swallowee === '..' ||
\* (!options.dot && swallowee.charAt(0) === '.')
matchOne_swallowStop(swallowee, options) ==
    \/ swallowee = <<".">>
    \/ swallowee = <<".", ".">>
    \/ ~options.dot /\ CharAt(swallowee, 0) = "."

\* hit = typeof p === 'string' ? f === p : p.test(f)
matchOne_hit(p, f, options) ==
    IF p.type = "string" THEN f = p.src
    ELSE PicoRegexTest(f, p.src, translateOptions(options))

\* the end of the walk with a file left over always accepted
matchOne_end_anyRest(file, pattern, partial, fi, pi) ==
    IF fi = Len(file) /\ pi = Len(pattern) THEN "true"
    ELSE IF fi = Len(file) THEN MatchOneBool(partial)
    ELSE IF pi = Len(pattern) THEN "true"
    ELSE "throw"

\* after the loop: the three exits, and the throw that follows them
matchOne_end(file, pattern, partial, fi, pi) ==
    IF fi = Len(file) /\ pi = Len(pattern) THEN "true"
    ELSE IF fi = Len(file) THEN MatchOneBool(partial)
    ELSE IF pi = Len(pattern)
    THEN MatchOneBool(fi = Len(file) - 1 /\ file[fi + 1] = <<>>)
    ELSE "throw"

\* the test after the while loop with the partial flag ignored
matchOne_afterWhile_never(partial, fr, fl) == FALSE

\* if (partial && fr === fl) return true
matchOne_afterWhile(partial, fr, fl) == partial /\ fr = fl

\* a result whose depth is at least d
MatchOneDeeper(r, d) == [r EXCEPT !.depth = IF r.depth < d THEN d ELSE r.depth]

RECURSIVE matchOne(_, _, _, _)
RECURSIVE matchOne_loop(_, _, _, _, _)
RECURSIVE matchOne_while(_, _, _, _, _, _)
RECURSIVE matchOne_attempt(_, _, _, _, _, _, _)

\* one turn of the while loop, sub being the result of the recursive call
\* this.matchOne(file.slice(fr), pattern.slice(pr), partial)
matchOne_attempt(file, pattern, partial, options, pi, fr, sub) ==
    IF sub.ret = "throw" THEN MatchOneResult("throw", <<>>, sub.depth + 1)
    ELSE IF sub.ret = "true"
    THEN MatchOneResult("true", Slice(file, pi, fr) \o sub.swallowed,
                        sub.depth + 1)
    ELSE IF matchOne_swallowStop(file[fr + 1], options)
    THEN MatchOneResult("false", <<>>, sub.depth + 1)
    ELSE MatchOneDeeper(matchOne_while(file, pattern, partial, options, pi,
                                       fr + 1),
                        sub.depth + 1)

\* let fr = fi; while (fr < fl) { ... fr++ }, then the partial test; the
\* loop index of the caller is pi = fi
matchOne_while(file, pattern, partial, options, pi, fr) ==
    IF fr < Len(file)
    THEN matchOne_attempt(file, pattern, partial, options, pi, fr,
                          matchOne(SliceFrom(file, fr),
                                   SliceFrom(pattern, pi + 1),
                                   partial, options))
    ELSE IF matchOne_afterWhile(partial, fr, Len(file))
    THEN MatchOneResult("true", Slice(file, pi, fr), 0)
    ELSE MatchOneResult("false", <<>>, 0)

\* for (; fi < fl && pi < pl; fi++, pi++): fi and pi start at 0 and advance
\* together, so one index i stands for both
matchOne_loop(file, pattern, partial, options, i) ==
    IF ~(i < Len(file) /\ i < Len(pattern))
    THEN MatchOneResult(matchOne_end(file, pattern, partial, i, i), <<>>, 0)
    ELSE IF pattern[i + 1].type = "false"
    THEN MatchOneResult("false", <<>>, 0)
    ELSE IF pattern[i + 1].type = "GLOBSTAR"
    THEN IF i + 1 = Len(pattern)
         THEN IF \E j \in (i + 1)..Len(file) :
                     matchOne_endStop(file[j], options)
              THEN MatchOneResult("false", <<>>, 0)
              ELSE MatchOneResult("true", SliceFrom(file, i), 0)
         ELSE matchOne_while(file, pattern, partial, options, i, i)
    ELSE IF ~matchOne_hit(pattern[i + 1], file[i + 1], options)
    THEN MatchOneResult("false", <<>>, 0)
    ELSE matchOne_loop(file, pattern, partial, options, i + 1)

matchOne(file, pattern, partial, options) ==
    matchOne_loop(file, pattern, partial, options, 0)

\* ------------------------------------------------------------------------
\* The fast-path layer (src/fast-paths.ts).
\* ------------------------------------------------------------------------

\* the characters the extension of a fast-path shape may not contain
ExtStop == {"+", "@", "!", "?", "*", "[", "("}

AllStars(s) == Len(s) >= 1 /\ \A i \in 1..Len(s) : s[i] = "*"

\* \.[^+@!?\*\[\(]+  matching the whole of s
IsExt(s) ==
    Len(s) >= 2 /\ s[1] = "." /\ \A i \in 2..Len(s) : s[i] \notin ExtStop

\* the length of the leading run of character c in s
RECURSIVE LeadRun(_, _)
LeadRun(s, c) ==
    IF s # <<>> /\ Head(s) = c THEN 1 + LeadRun(Tail(s), c) ELSE 0

\* STAR_RE
MatchesStar(pattern) == AllStars(pattern)

\* STAR_DOT_EXT_RE
MatchesStarDotExt(pattern) ==
    LET n == LeadRun(pattern, "*")
    IN  n >= 1 /\ IsExt(SliceFrom(pattern, n))

\* STAR_DOT_STAR_RE
MatchesStarDotStar(pattern) ==
    LET n == LeadRun(pattern, "*")
    IN  /\ n >= 1 /\ CharAt(pattern, n) = "."
        /\ AllStars(SliceFrom(pattern, n + 1))

\* DOT_STAR_RE
MatchesDotStar(pattern) ==
    CharAt(pattern, 0) = "." /\ AllStars(SliceFrom(pattern, 1))

\* QMARKS_RE
MatchesQmarks(pattern) ==
    LET n == LeadRun(pattern, "?")
    IN  n >= 1 /\ (n = Len(pattern) \/ IsExt(SliceFrom(pattern, n)))

\* /[@!?+*]\(/.test(pattern)
HasExtglob(pattern) ==
    \E i \in 1..(Len(pattern) - 1) :
        pattern[i] \in {"@", "!", "?", "+", "*"} /\ pattern[i + 1] = "("

Decided(b) == [isNull |-> FALSE, value |-> b]

Undecided == [isNull |-> TRUE, value |-> FALSE]

IsDotOrDotDot(path) == path = <<".">> \/ path = <<".", ".">>

\* tryFastPath(path, pattern, options): a boolean or null
tryFastPath(path, pattern, options) ==
    IF Includes(path, <<"/">>) THEN Undecided
    ELSE IF Includes(pattern, <<"/">>) THEN Undecided
    ELSE IF ~options.nonegate /\ StartsWith(pattern, <<"!">>) THEN Undecided
    ELSE IF ~options.nobrace /\ Includes(pattern, <<"{">>) THEN Undecided
    ELSE IF ~options.noext /\ HasExtglob(pattern) THEN Undecided
    ELSE IF Includes(pattern, <<"[">>) THEN Undecided
    ELSE LET dot == options.dot
             nocase == options.nocase
         IN
      IF MatchesStar(pattern)
      THEN IF Len(path) = 0 THEN Decided(FALSE)
           ELSE IF dot THEN Decided(~IsDotOrDotDot(path))
           ELSE Decided(~StartsWith(path, <<".">>))
      ELSE IF MatchesStarDotExt(pattern)
      THEN LET ext == SliceFrom(pattern, LeadRun(pattern, "*")) IN
           IF Len(path) = 0 THEN Decided(FALSE)
           ELSE IF nocase
           THEN LET lpath == ToLowerCase(path)
                    lext == ToLowerCase(ext)
                IN  IF dot THEN Decided(EndsWith(lpath, lext))
                    ELSE Decided(/\ ~StartsWith(path, <<".">>)
                                 /\ EndsWith(lpath, lext))
           ELSE IF dot THEN Decided(EndsWith(path, ext))
           ELSE Decided(~StartsWith(path, <<".">>) /\ EndsWith(path, ext))
      ELSE IF MatchesStarDotStar(pattern)
      THEN IF Len(path) = 0 THEN Decided(FALSE)
           ELSE IF dot
           THEN Decided(~IsDotOrDotDot(path) /\ Includes(path, <<".">>))
           ELSE Decided(/\ ~StartsWith(path, <<".">>)
                        /\ Includes(path, <<".">>))
      ELSE IF MatchesDotStar(pattern)
      THEN Decided(StartsWith(path, <<".">>) /\ ~IsDotOrDotDot(path))
      ELSE IF MatchesQmarks(pattern)
      THEN LET qLen == LeadRun(pattern, "?")
               ext == SliceFrom(pattern, qLen)
               expectedLen == qLen + Len(ext)
           IN  IF Len(path) # expectedLen THEN Decided(FALSE)
               ELSE IF IsDotOrDotDot(path) THEN Decided(FALSE)
               ELSE IF /\ ext # <<>>
                       /\ IF nocase
                          THEN ~EndsWith(ToLowerCase(path), ToLowerCase(ext))
                          ELSE ~EndsWith(path, ext)
               THEN Decided(FALSE)
               ELSE IF ~dot /\ StartsWith(path, <<".">>) THEN Decided(FALSE)
               ELSE Decided(TRUE)
      ELSE Undecided

mightUseFastPath(pattern) ==
    /\ ~Includes(pattern, <<"/">>)
    /\ ~Includes(pattern, <<"{">>)
    /\ ~Includes(pattern, <<"[">>)
    /\ ~HasExtglob(pattern)

\* ------------------------------------------------------------------------
\* escape() (src/escape.ts) and unescape() (unescape.ts, stored after
\* types.ts).
\* ------------------------------------------------------------------------

\* the class  [?*()[\]{}]  of escape()
EscapeMagic == {"?", "*", "(", ")", "[", "]", "{", "}"}

\* escape(str, {windowsPathsNoEscape}): every magic character wrapped in
\* [ ] in the character-class mode, else every magic character and every
\* backslash preceded by a backslash
RECURSIVE escape(_, _)
escape(str, windowsPathsNoEscape) ==
    IF str = <<>> THEN <<>>
    ELSE (IF windowsPathsNoEscape
          THEN (IF Head(str) \in EscapeMagic
                THEN <<"[", Head(str), "]">> ELSE <<Head(str)>>)
          ELSE (IF Head(str) \in EscapeMagic \cup {"\\"}
                THEN <<"\\", Head(str)>> ELSE <<Head(str)>>))
         \o escape(Tail(str), windowsPathsNoEscape)

\* the class  [^\/\\[\]{}]  of unescape()
UnwrapStop == {"/", "\\", "[", "]", "{", "}"}

\* str.replace(/\[([^\/\\[\]{}])\]/g, '$1'): matches are found left to
\* right and do not overlap
RECURSIVE unescape_brackets(_)
unescape_brackets(str) ==
    IF str = <<>> THEN <<>>
    ELSE IF /\ Len(str) >= 3 /\ str[1] = "[" /\ str[2] \notin UnwrapStop
            /\ str[3] = "]"
    THEN <<str[2]>> \o unescape_brackets(SliceFrom(str, 3))
    ELSE <<Head(str)>> \o unescape_brackets(Tail(str))

\* str.replace(/\\([^/])/g, '$1')
RECURSIVE unescape_backslashes(_)
unescape_backslashes(str) ==
    IF str = <<>> THEN <<>>
    ELSE IF Len(str) >= 2 /\ str[1] = "\\" /\ str[2] # "/"
    THEN <<str[2]>> \o unescape_backslashes(SliceFrom(str, 2))
    ELSE <<Head(str)>> \o unescape_backslashes(Tail(str))

\* unescape(str, {windowsPathsNoEscape})
unescape(str, windowsPathsNoEscape) ==
    IF windowsPathsNoEscape THEN unescape_brackets(str)
    ELSE unescape_backslashes(str)

\* ------------------------------------------------------------------------
\* The compiled-pattern cache (src/cache.ts).
\* ------------------------------------------------------------------------

\* capacity of the pattern cache (500 in the source, scaled for checking)
CACHE_SIZE == 2

Bit(b) == IF b THEN "1" ELSE "0"

\* getCacheKey: the pattern, a NUL, one digit per option, the platform
getCacheKey(pattern, options) ==
    pattern \o <<"NUL",
                 Bit(options.nocase), Bit(options.dot),
                 Bit(options.noglobstar), Bit(options.nobrace),
                 Bit(options.noext), Bit(options.nonegate),
                 Bit(options.nocomment), Bit(options.matchBase),
                 Bit(options.flipNegate), Bit(options.windowsPathsNoEscape),
                 Bit(options.preserveMultipleSlashes), Bit(options.partial),
                 options.platform>>

\* a hit without the re-insertion
cache_hit_noPromote(key, pc, bc) ==
    [threw |-> "", mm |-> MapGet(pc, key), hit |-> TRUE, key |-> key,
     cache |-> pc, braceCache |-> bc]

\* getOrCreateMatcher on a hit: the entry moves to the end of the Map
cache_hit(key, pc, bc) ==
    [threw |-> "", mm |-> MapGet(pc, key), hit |-> TRUE, key |-> key,
     cache |-> MapSet(MapDelete(pc, key), key, MapGet(pc, key)),
     braceCache |-> bc]

\* the eviction test written  size > CACHE_SIZE
cache_evict_late(pc) == IF Len(pc) > CACHE_SIZE THEN Tail(pc) ELSE pc

\* getOrCreateMatcher on a miss: the first key leaves a full Map
cache_evict(pc) == IF Len(pc) >= CACHE_SIZE THEN Tail(pc) ELSE pc

\* a miss that makes room before it calls the constructor
cache_miss_evictFirst(key, made, pc) ==
    IF made.threw # ""
    THEN [threw |-> made.threw, mm |-> <<>>, hit |-> FALSE, key |-> <<>>,
          cache |-> cache_evict(pc), braceCache |-> made.braceCache]
    ELSE [threw |-> "", mm |-> made.mm, hit |-> FALSE, key |-> key,
          cache |-> MapSet(cache_evict(pc), key, made.mm),
          braceCache |-> made.braceCache]

\* getOrCreateMatcher on a miss, made being what the constructor returned
\* or threw
cache_miss(key, made, pc) ==
    IF made.threw # ""
    THEN [threw |-> made.threw, mm |-> <<>>, hit |-> FALSE, key |-> <<>>,
          cache |-> pc, braceCache |-> made.braceCache]
    ELSE [threw |-> "", mm |-> made.mm, hit |-> FALSE, key |-> key,
          cache |-> MapSet(cache_evict(pc), key, made.mm),
          braceCache |-> made.braceCache]

\* getOrCreateMatcher: threw is "" when it returns, and then mm is the
\* instance returned, key the cache key it touched and hit whether the key
\* was found; cache and braceCache are the two caches afterwards
getOrCreateMatcher(pattern, options, pc, bc) ==
    IF MapHas(pc, getCacheKey(pattern, options))
    THEN cache_hit(getCacheKey(pattern, options), pc, bc)
    ELSE cache_miss(getCacheKey(pattern, options),
                    Minimatch(pattern, options, bc), pc)


clearCache(pc) == <<>>

getCacheSize(pc) == Len(pc)

\* ------------------------------------------------------------------------
\* The public entry points (index.ts).  Each returns the value or the error
\* of the call together with the two caches afterwards.
\* ------------------------------------------------------------------------

Returned(value, g) ==
    [threw |-> "", value |-> value, mm |-> g.mm, key |-> g.key,
     cache |-> g.cache, braceCache |-> g.braceCache]

Thrown(error, g) ==
    [threw |-> error, value |-> FALSE, mm |-> <<>>, key |-> <<>>,
     cache |-> g.cache, braceCache |-> g.braceCache]

\* a call that returns before it reaches the pattern cache
Untouched(pc, bc) ==
    [mm |-> <<>>, key |-> <<>>, cache |-> pc, braceCache |-> bc]

\* minimatch(): getOrCreateMatcher(pattern, options).match(path)
minimatch_cached(path, g) ==
    IF g.threw # "" THEN Thrown(g.threw, g)
    ELSE Returned(Minimatch_match(g.mm, path, g.mm.partial), g)

\* minimatch(path, pattern, options)
minimatch(path, pattern, options, pc, bc) ==
    IF pattern = <<>> THEN Returned(path = <<>>, Untouched(pc, bc))
    ELSE IF ~options.nocomment /\ CharAt(pattern, 0) = "#"
    THEN Returned(FALSE, Untouched(pc, bc))
    ELSE IF /\ ~options.matchBase
            /\ mightUseFastPath(pattern)
            /\ ~tryFastPath(path, pattern, options).isNull
    THEN Returned(tryFastPath(path, pattern, options).value,
                  Untouched(pc, bc))
    ELSE minimatch_cached(path,
                          getOrCreateMatcher(pattern, options, pc, bc))

\* filter(): the closure is the instance it captures
filter_cached(g) ==
    IF g.threw # "" THEN Thrown(g.threw, g) ELSE Returned(FALSE, g)

\* filter(pattern, options)
filter(pattern, options, pc, bc) ==
    filter_cached(getOrCreateMatcher(pattern, options, pc, bc))

\* makeRe(): value is the expression or "false"; the instance in the cache
\* memoizes it
makeRe_cached(g) ==
    IF g.threw # "" THEN Thrown(g.threw, g)
    ELSE [threw |-> "", value |-> Minimatch_makeRe(g.mm),
          mm |-> [g.mm EXCEPT !.regexp = Minimatch_makeRe(g.mm)],
          key |-> g.key,
          cache |-> MapSet(g.cache, g.key,
                           [g.mm EXCEPT !.regexp = Minimatch_makeRe(g.mm)]),
          braceCache |-> g.braceCache]

\* makeRe(pattern, options)
makeRe(pattern, options, pc, bc) ==
    makeRe_cached(getOrCreateMatcher(pattern, options, pc, bc))

\* match(): the filtered list, or the pattern alone under nonull
match_filtered(pattern, g, result) ==
    IF g.mm.options.nonull /\ Len(result) = 0
    THEN Returned(<<pattern>>, g)
    ELSE Returned(result, g)

\* match(): list.filter((f) => mm.match(f))
match_cached(list, pattern, g) ==
    IF g.threw # "" THEN Thrown(g.threw, g)
    ELSE match_filtered(
             pattern, g,
             SelectSeq(list,
                       LAMBDA f : Minimatch_match(g.mm, f, g.mm.partial)))

\* match(list, pattern, options)
match(list, pattern, options, pc, bc) ==
    match_cached(list, pattern,
                 getOrCreateMatcher(pattern, options, pc, bc))


\* ------------------------------------------------------------------------
\* State.  patternCache and braceCache are the two module-level Maps; call
\* is the last call made and what it returned.  touched and inserted are
\* history variables over the keys the pattern cache holds: touched lists
\* them by their most recent insertion or hit, oldest first, and inserted by
\* their insertion alone.
\* ------------------------------------------------------------------------
VARIABLES patternCache, braceCache, call, touched, inserted, braceTouched,
          inflight

vars ==
    <<patternCache, braceCache, call, touched, inserted, braceTouched,
      inflight>>

NoCall ==
    [op |-> "none", path |-> <<>>, list |-> <<>>, pattern |-> <<>>,
     options |-> DefaultOptions, threw |-> "", bool |-> FALSE,
     out |-> <<>>, re |-> "null", fast |-> Undecided, mm |-> <<>>,
     key |-> <<>>, evicted |-> <<>>, oldest |-> <<>>, str |-> <<>>,
     shares |-> <<>>, hit |-> FALSE, mutated |-> <<>>,
     braceEvicted |-> <<>>, overlapped |-> FALSE, before |-> <<>>,
     parts |-> <<>>, partial |-> FALSE, ret |-> "", swallowed |-> <<>>,
     depth |-> 0]

\* the callers of getOrCreateMatcher, and a caller that is in no call
Callers == {"A", "B"}

Idle ==
    [pc |-> "idle", pattern |-> <<>>, options |-> DefaultOptions,
     key |-> <<>>, mm |-> <<>>]

Init ==
    /\ patternCache = <<>>
    /\ braceCache = <<>>
    /\ call = NoCall
    /\ touched = <<>>
    /\ inserted = <<>>
    /\ braceTouched = <<>>
    /\ inflight = [c \in Callers |-> Idle]

\* ---- inputs ----------------------------------------------------------
P_a == <<"a">>

P_ab == <<"a", "/", "b">>

\* a pattern one character over the built-in limit
OverLong == [i \in 1..(MAX_PATTERN_LENGTH + 1) |-> "*"]

F_a == <<"a">>

F_a_b == <<"a", "\\", "b">>

Paths == {F_a, F_a_b}

Lists == {<<F_a, F_a_b>>}

\* the calls of Spec: two patterns, and options the cache key leaves out
Patterns == {P_a, P_ab}

OptionSets ==
    {DefaultOptions,
     [DefaultOptions EXCEPT !.nonull = TRUE],
     [DefaultOptions EXCEPT !.failglob = TRUE],
     [DefaultOptions EXCEPT !.failglob = TRUE, !.nonull = TRUE],
     [DefaultOptions EXCEPT !.allowWindowsEscape = FALSE]}

\* the calls of SpecLRU: more keys than the cache holds
LruPatterns == {P_a, P_ab, OverLong}

LruOptions == {DefaultOptions, [DefaultOptions EXCEPT !.dot = TRUE]}

\* ---- history ---------------------------------------------------------
Keys(map) == {map[i].key : i \in 1..Len(map)}

Touch(seq, key) ==
    IF key = <<>> THEN seq
    ELSE Append(SelectSeq(seq, LAMBDA k : k # key), key)

InsertOnce(seq, key) ==
    IF key = <<>> \/ (\E i \in 1..Len(seq) : seq[i] = key) THEN seq
    ELSE Append(seq, key)

Held(seq, map) == SelectSeq(seq, LAMBDA k : k \in Keys(map))

\* the key a step removed from the pattern cache, <<>> when it removed none
\* (call.evicted; call.oldest is then the key that had been inserted first)
Evicted(before, after) ==
    IF \E i \in 1..Len(before) : before[i].key \notin Keys(after)
    THEN before[CHOOSE i \in 1..Len(before) :
                    before[i].key \notin Keys(after)].key
    ELSE <<>>

\* the pattern a constructor call handed to braceExpand, <<>> when it threw
\* or returned from make() before the expansion
BraceUse(r) ==
    IF r.threw = "" /\ ~r.mm.comment /\ ~r.mm.empty THEN r.mm.pattern
    ELSE <<>>

\* the brace cache's keys in the order of their last use (a hit or an
\* insertion), after a braceExpand call for the key
BraceTouch(seq, key, nobrace, before, after) ==
    IF key # <<>> /\ ~nobrace /\ (MapHas(before, key) \/ MapHas(after, key))
    THEN Held(Touch(seq, key), after)
    ELSE Held(seq, after)

\* the effect of a call that returned or threw r on the state
Effect(r, c) ==
    /\ patternCache' = r.cache
    /\ braceCache' = r.braceCache
    /\ braceTouched' =
          BraceTouch(braceTouched,
                     IF r.key # <<>> /\ ~MapHas(patternCache, r.key)
                     THEN BraceUse(r) ELSE <<>>,
                     c.options.nobrace, braceCache, r.braceCache)
    /\ touched' = Held(Touch(touched, r.key), r.cache)
    /\ inserted' = Held(InsertOnce(inserted, r.key), r.cache)
    /\ UNCHANGED inflight
    /\ call' = [c EXCEPT !.threw = r.threw, !.mm = r.mm, !.key = r.key,
                         !.evicted = Evicted(patternCache, r.cache),
                         !.oldest =
                            IF Evicted(patternCache, r.cache) # <<>>
                            THEN inserted[1] ELSE <<>>]

\* ---- actions ---------------------------------------------------------
MinimatchCall(Ps, Os) ==
    \E path \in Paths, pattern \in Ps, options \in Os :
        \E r \in {minimatch(path, pattern, options, patternCache, braceCache)} :
            Effect(r, [NoCall EXCEPT !.op = "minimatch", !.path = path,
                                     !.pattern = pattern,
                                     !.options = options,
                                     !.bool = r.value])

FilterCall(Ps, Os) ==
    \E pattern \in Ps, options \in Os :
        \E r \in {filter(pattern, options, patternCache, braceCache)} :
            Effect(r, [NoCall EXCEPT !.op = "filter", !.pattern = pattern,
                                     !.options = options])

\* the function filter() returned, applied to a path
FilterApply ==
    /\ call.op \in {"filter", "filterApply"}
    /\ call.threw = ""
    /\ \E path \in Paths :
         call' = [call EXCEPT !.op = "filterApply", !.path = path,
                              !.evicted = <<>>,
                              !.bool = Minimatch_match(call.mm, path,
                                                       call.mm.partial)]
    /\ UNCHANGED <<patternCache, braceCache, touched, inserted, braceTouched,
                 inflight>>

MakeReCall(Ps, Os) ==
    \E pattern \in Ps, options \in Os :
        \E r \in {makeRe(pattern, options, patternCache, braceCache)} :
            Effect(r, [NoCall EXCEPT !.op = "makeRe", !.pattern = pattern,
                                     !.options = options,
                                     !.re = IF r.threw = "" THEN r.value
                                            ELSE "null"])

MatchCall(Ps, Os) ==
    \E list \in Lists, pattern \in Ps, options \in Os :
        \E r \in {match(list, pattern, options, patternCache, braceCache)} :
            Effect(r, [NoCall EXCEPT !.op = "match", !.list = list,
                                     !.pattern = pattern,
                                     !.options = options,
                                     !.out = IF r.threw = "" THEN r.value
                                             ELSE <<>>])

ClearCacheCall ==
    /\ patternCache' = clearCache(patternCache)
    /\ touched' = <<>>
    /\ inserted' = <<>>
    /\ call' = [NoCall EXCEPT !.op = "clearCache"]
    /\ UNCHANGED <<braceCache, braceTouched, inflight>>

\* the public calls, with options the cache key leaves out
Next ==
    \/ MinimatchCall(Patterns, OptionSets)
    \/ FilterCall(Patterns, OptionSets)
    \/ FilterApply
    \/ MakeReCall(Patterns, OptionSets)
    \/ MatchCall(Patterns, OptionSets)
    \/ ClearCacheCall

Spec == Init /\ [][Next]_vars

\* the public calls, with more keys than the pattern cache holds
NextLRU ==
    \/ MinimatchCall(LruPatterns, LruOptions)
    \/ FilterCall(LruPatterns, LruOptions)
    \/ FilterApply
    \/ MakeReCall(LruPatterns, LruOptions)
    \/ MatchCall(LruPatterns, LruOptions)
    \/ ClearCacheCall

SpecLRU == Init /\ [][NextLRU]_vars

\* ---- the constructor and an instance's match() ------------------------
\* the longest run of leading '!' the patterns carry
MaxBangs == 3

Bangs(n) == [i \in 1..n |-> "!"]

\* a pattern exactly as long as the built-in limit
AtLimit == [i \in 1..MAX_PATTERN_LENGTH |-> "a"]

\* a pattern one character over the built-in limit that is no fast-path shape
OverLimit == [i \in 1..(MAX_PATTERN_LENGTH + 1) |-> "a"]

Stems == {<<>>, <<"a">>, <<"#", "a">>, <<"*", ".", "a">>}

NewPatterns ==
    {Bangs(n) \o stem : n \in 0..MaxBangs, stem \in Stems}
        \cup {AtLimit, OverLimit, OverLong}

NaNMaxLength == [kind |-> "NaN", n |-> 0]

InfinityMaxLength == [kind |-> "Infinity", n |-> 0]

NewOptions ==
    {DefaultOptions,
     [DefaultOptions EXCEPT !.nonegate = TRUE],
     [DefaultOptions EXCEPT !.flipNegate = TRUE],
     [DefaultOptions EXCEPT !.nocomment = TRUE],
     [DefaultOptions EXCEPT !.dot = TRUE],
     [DefaultOptions EXCEPT !.maxLength = NumMaxLength(2)],
     [DefaultOptions EXCEPT !.maxLength = NumMaxLength(0)],
     [DefaultOptions EXCEPT !.maxLength = NumMaxLength(-1)],
     [DefaultOptions EXCEPT !.maxLength = NaNMaxLength],
     [DefaultOptions EXCEPT !.maxLength = InfinityMaxLength]}

NewPaths ==
    {<<>>, <<"a">>, <<"#", "a">>, <<"x", ".", "a">>, <<".">>, <<"!", "a">>}

\* the minimatch() calls made next to the constructor's: patterns at and
\* over the limits
LimitPatterns == {P_ab, AtLimit, OverLimit, OverLong}

LimitOptions ==
    {DefaultOptions, [DefaultOptions EXCEPT !.maxLength = NumMaxLength(2)]}

\* the arguments of one constructor call, both caches empty
InitNew ==
    /\ patternCache = <<>>
    /\ braceCache = <<>>
    /\ touched = <<>>
    /\ inserted = <<>>
    /\ braceTouched = <<>>
    /\ inflight = [c \in Callers |-> Idle]
    /\ call \in {[NoCall EXCEPT !.op = "args", !.pattern = pattern,
                                !.options = options] :
                    pattern \in NewPatterns, options \in NewOptions}

\* new Minimatch(pattern, options)
NewMinimatch ==
    /\ call.op = "args"
    /\ \E r \in {Minimatch(call.pattern, call.options, braceCache)} :
         /\ call' = [call EXCEPT !.op = "new", !.threw = r.threw,
                                 !.mm = r.mm]
         /\ braceCache' = r.braceCache
         /\ braceTouched' = BraceTouch(braceTouched, BraceUse(r),
                                       call.options.nobrace, braceCache,
                                       r.braceCache)
    /\ UNCHANGED <<patternCache, touched, inserted, inflight>>

\* mm.match(path) on the instance the last constructor call returned
InstanceMatch ==
    /\ call.op \in {"new", "mm.match"}
    /\ call.threw = ""
    /\ \E path \in NewPaths :
         call' = [call EXCEPT !.op = "mm.match", !.path = path,
                              !.bool = Minimatch_match(call.mm, path,
                                                       call.mm.partial)]
    /\ UNCHANGED <<patternCache, braceCache, touched, inserted, braceTouched,
                 inflight>>

NextNew ==
    \/ NewMinimatch
    \/ InstanceMatch
    \/ MinimatchCall(LimitPatterns, LimitOptions)

SpecNew == InitNew /\ [][NextNew]_vars

\* ---- the fast path against full compilation ---------------------------
\* the longest pattern and the longest path of the comparison
MaxFastPattern == 3

MaxFastPath == 2

Words(alphabet, n) == UNION {[1..k -> alphabet] : k \in 0..n}

FastPatterns == Words({"*", "?", ".", "a"}, MaxFastPattern) \ {<<>>}

FastPaths ==
    Words({"a", "A", ".", "\\"}, MaxFastPath)
        \cup {<<"a", ".", "a">>, <<"a", ".", "A">>, <<".", "a", "a">>, F_a_b}

FastOptions ==
    {[DefaultOptions EXCEPT !.dot = d, !.nocase = n,
                            !.windowsPathsNoEscape = w, !.platform = pf] :
        d \in BOOLEAN, n \in BOOLEAN, w \in BOOLEAN, pf \in {"", "win32"}}

\* the arguments of one comparison, both caches empty
InitFast ==
    /\ patternCache = <<>>
    /\ braceCache = <<>>
    /\ touched = <<>>
    /\ inserted = <<>>
    /\ braceTouched = <<>>
    /\ inflight = [c \in Callers |-> Idle]
    /\ call \in {[NoCall EXCEPT !.op = "args", !.path = path,
                                !.pattern = pattern, !.options = options] :
                    path \in FastPaths, pattern \in FastPatterns,
                    options \in FastOptions}

\* tryFastPath(path, pattern, options)
FastPathCall ==
    /\ call.op = "args"
    /\ call' = [call EXCEPT !.op = "tryFastPath",
                            !.fast = tryFastPath(call.path, call.pattern,
                                                 call.options)]
    /\ UNCHANGED <<patternCache, braceCache, touched, inserted, braceTouched,
                 inflight>>

\* new Minimatch(pattern, options).match(path) for the arguments of the
\* last tryFastPath call
FullMatch ==
    /\ call.op = "tryFastPath"
    /\ \E r \in {Minimatch(call.pattern, call.options, braceCache)} :
         /\ call' = [call EXCEPT
                       !.op = "full", !.threw = r.threw, !.mm = r.mm,
                       !.bool = IF r.threw # "" THEN FALSE
                                ELSE Minimatch_match(r.mm, call.path,
                                                     r.mm.partial)]
         /\ braceCache' = r.braceCache
         /\ braceTouched' = BraceTouch(braceTouched, BraceUse(r),
                                       call.options.nobrace, braceCache,
                                       r.braceCache)
    /\ UNCHANGED <<patternCache, touched, inserted, inflight>>

NextFast == FastPathCall \/ FullMatch

SpecFast == InitFast /\ [][NextFast]_vars

\* ---- escape() and unescape() -----------------------------------------
\* the longest string escaped
MaxEscapeLen == 3

EscapeStrings ==
    Words({"a", "*", "[", "]", "{", "\\", "/"}, MaxEscapeLen)

EscapeOptions ==
    {DefaultOptions, [DefaultOptions EXCEPT !.windowsPathsNoEscape = TRUE]}

\* the argument of one escape() call
InitEscape ==
    /\ patternCache = <<>>
    /\ braceCache = <<>>
    /\ touched = <<>>
    /\ inserted = <<>>
    /\ braceTouched = <<>>
    /\ inflight = [c \in Callers |-> Idle]
    /\ call \in {[NoCall EXCEPT !.op = "args", !.pattern = str,
                                !.options = options] :
                    str \in EscapeStrings, options \in EscapeOptions}

\* escape(str, options)
EscapeCall ==
    /\ call.op = "args"
    /\ call' = [call EXCEPT
                  !.op = "escape",
                  !.str = escape(call.pattern,
                                 call.options.windowsPathsNoEscape)]
    /\ UNCHANGED <<patternCache, braceCache, touched, inserted, braceTouched,
                 inflight>>

\* unescape(escaped, options) on what the last escape() call returned
UnescapeCall ==
    /\ call.op = "escape"
    /\ call' = [call EXCEPT
                  !.op = "unescape",
                  !.str = unescape(call.str,
                                   call.options.windowsPathsNoEscape)]
    /\ UNCHANGED <<patternCache, braceCache, touched, inserted, braceTouched,
                 inflight>>

NextEscape == EscapeCall \/ UnescapeCall

SpecEscape == InitEscape /\ [][NextEscape]_vars

\* ---- braceExpand() and the brace cache --------------------------------
BracePatterns ==
    {<<"a">>,
     <<"{", "a", ",", "b", "}">>,
     <<"{", "a", ",", "a", "}">>,
     <<"{", "b", ",", "a", ",", "b", ",", "a", "}">>,
     <<"{", "a", ",", "b", "}", "{", "a", ",", "b", "}">>,
     <<"{", "a", ",", "{", "a", ",", "b", "}", "}">>,
     <<"{", "1", ".", ".", "3", "}">>}

BraceOptions == {DefaultOptions, [DefaultOptions EXCEPT !.nobrace = TRUE]}

\* minimatch.braceExpand(pattern, options)
BraceExpandCall ==
    \E pattern \in BracePatterns, options \in BraceOptions :
        \E r \in {braceExpand(pattern, options, braceCache)} :
            /\ braceCache' = r.cache
            /\ braceTouched' = BraceTouch(braceTouched, pattern,
                                          options.nobrace, braceCache,
                                          r.cache)
            /\ call' = [NoCall EXCEPT
                          !.op = "braceExpand", !.pattern = pattern,
                          !.options = options, !.out = r.result,
                          !.shares = r.shares,
                          !.hit = ~options.nobrace
                                      /\ MapHas(braceCache, pattern),
                          !.mutated = call.mutated,
                          !.braceEvicted = Evicted(braceCache, r.cache)]
            /\ UNCHANGED <<patternCache, touched, inserted, inflight>>

\* the caller changes the array the last braceExpand call returned: a push,
\* a splice of the first element, or an element assignment; an array shared
\* with a cache entry changes in the cache as well
MutateReturned ==
    /\ call.op = "braceExpand"
    /\ \E changed \in {Append(call.out, <<"x">>), Tail(call.out),
                       [call.out EXCEPT ![1] = <<"x">>]} :
         /\ call' = [call EXCEPT !.op = "mutate", !.out = changed,
                                 !.mutated = call.pattern]
         /\ braceCache' =
              IF call.shares # <<>> /\ MapHas(braceCache, call.shares)
              THEN MapSet(braceCache, call.shares, changed)
              ELSE braceCache
    /\ UNCHANGED <<patternCache, touched, inserted, braceTouched, inflight>>

NextBrace ==
    \/ BraceExpandCall
    \/ MutateReturned
    \/ MinimatchCall({<<"{", "a", ",", "b", "}">>}, {DefaultOptions})
    \/ ClearCacheCall

SpecBrace == Init /\ [][NextBrace]_vars

\* ---- an instance's match(path, true) and hasMagic() --------------------
InstancePatterns ==
    {<<>>, <<"a">>, <<"a", ".", "b">>, <<"a", "/", "b">>,
     <<"a", "/", "b", "/", "c">>, <<"a", "/", "*">>, <<"*">>,
     <<"*", "*", "/", "b">>, <<"a", "/", "*", "*", "/", "b">>,
     <<"{", "a", ",", "b", "}">>, <<"{", "a", ",", "}">>,
     <<"a", "/", ".", ".">>, <<"{", "a", ",", "b", "/", ".", ".", "}">>,
     <<"#", "a">>}

InstanceOptions ==
    {DefaultOptions,
     [DefaultOptions EXCEPT !.partial = TRUE],
     [DefaultOptions EXCEPT !.magicalBraces = TRUE],
     [DefaultOptions EXCEPT !.dot = TRUE],
     [DefaultOptions EXCEPT !.optimizationLevel = 0],
     [DefaultOptions EXCEPT !.maxLength = NumMaxLength(1)]}

InstancePaths ==
    {<<>>, <<"/">>, <<"a">>, <<"b">>, <<"a", "/", "b">>, <<"a", "/", "x">>,
     <<"a", "/", "x", "/", "b">>, <<"a", "/", "b", "/", "c">>}

\* the arguments of one constructor call, both caches empty
InitInstance ==
    /\ patternCache = <<>>
    /\ braceCache = <<>>
    /\ touched = <<>>
    /\ inserted = <<>>
    /\ braceTouched = <<>>
    /\ inflight = [c \in Callers |-> Idle]
    /\ call \in {[NoCall EXCEPT !.op = "args", !.pattern = pattern,
                                !.options = options] :
                    pattern \in InstancePatterns,
                    options \in InstanceOptions}

\* mm.match(path, true) on the instance the last constructor call returned
PartialMatch ==
    /\ call.op \in {"new", "mm.match(path, true)", "mm.hasMagic",
                    "options.x = true"}
    /\ call.threw = ""
    /\ \E path \in InstancePaths :
         call' = [call EXCEPT !.op = "mm.match(path, true)", !.path = path,
                              !.bool = Minimatch_match(call.mm, path, TRUE)]
    /\ UNCHANGED <<patternCache, braceCache, touched, inserted, braceTouched,
                 inflight>>

\* mm.hasMagic() on the instance the last constructor call returned
HasMagicCall ==
    /\ call.op \in {"new", "mm.match(path, true)", "mm.hasMagic",
                    "options.x = true"}
    /\ call.threw = ""
    /\ call' = [call EXCEPT !.op = "mm.hasMagic", !.path = <<>>,
                            !.bool = hasMagic(call.mm)]
    /\ UNCHANGED <<patternCache, braceCache, touched, inserted, braceTouched,
                 inflight>>

\* the caller sets a property of the options object it passed to the
\* constructor; the constructor stored that object itself in this.options,
\* so the instance's options are the changed object
MutateOptions ==
    /\ call.op \in {"new", "mm.match(path, true)", "mm.hasMagic"}
    /\ call.threw = ""
    /\ \E changed \in {[call.options EXCEPT !.matchBase = TRUE],
                       [call.options EXCEPT !.flipNegate = TRUE]} :
         /\ changed # call.options
         /\ call' = [call EXCEPT !.op = "options.x = true",
                                 !.options = changed,
                                 !.mm = [call.mm EXCEPT !.options = changed]]
    /\ UNCHANGED <<patternCache, braceCache, touched, inserted, braceTouched,
                 inflight>>

NextInstance ==
    NewMinimatch \/ PartialMatch \/ HasMagicCall \/ MutateOptions

SpecInstance == InitInstance /\ [][NextInstance]_vars

(***************************************************************************)
(* getOrCreateMatcher, one Map operation at a time (src/cache.ts 69-100).  *)
(* Each caller walks the body of the function: get, then delete and set on *)
(* a hit, or the constructor, the size test with its eviction, and set on  *)
(* a miss.  The code holds no lock, so nothing in it keeps the steps of    *)
(* two callers apart; a host that runs each call to completion is the run  *)
(* in which `overlapped' stays FALSE.                                      *)
(***************************************************************************)
StepPatterns == {P_a, P_ab, <<"b">>, OverLimit}

Busy(c) == inflight[c].pc # "idle"

OtherBusy(c) == \E d \in Callers \ {c} : Busy(d)

\* the record of the step just taken by caller c
StepRecord(c, op, threw) ==
    [call EXCEPT !.op = op, !.pattern = inflight[c].pattern,
                 !.options = inflight[c].options, !.key = inflight[c].key,
                 !.threw = threw,
                 !.overlapped = call.overlapped \/ OtherBusy(c)]

\* entry: const key = getCacheKey(pattern, options)
GocEnter(c) ==
    /\ ~Busy(c)
    /\ \E pattern \in StepPatterns, options \in {DefaultOptions} :
         /\ inflight' = [inflight EXCEPT ![c] =
                [pc |-> "get", pattern |-> pattern, options |-> options,
                 key |-> getCacheKey(pattern, options), mm |-> <<>>]]
         /\ call' = [call EXCEPT !.op = "enter", !.pattern = pattern,
                        !.options = options,
                        !.key = getCacheKey(pattern, options), !.threw = "",
                        !.overlapped = call.overlapped \/ OtherBusy(c),
                        !.before = IF call.overlapped \/ OtherBusy(c)
                                   THEN <<>> ELSE patternCache]
    /\ UNCHANGED <<patternCache, braceCache, touched, inserted, braceTouched>>

\* let mm = patternCache.get(key); if (mm) ... else ...
GocGet(c) ==
    /\ inflight[c].pc = "get"
    /\ inflight' = [inflight EXCEPT ![c] =
           IF MapHas(patternCache, inflight[c].key)
           THEN [inflight[c] EXCEPT !.pc = "delete",
                                    !.mm = MapGet(patternCache, inflight[c].key)]
           ELSE [inflight[c] EXCEPT !.pc = "new"]]
    /\ call' = StepRecord(c, "get", "")
    /\ UNCHANGED <<patternCache, braceCache, touched, inserted, braceTouched>>

\* patternCache.delete(key)
GocDelete(c) ==
    /\ inflight[c].pc = "delete"
    /\ patternCache' = MapDelete(patternCache, inflight[c].key)
    /\ inflight' = [inflight EXCEPT ![c].pc = "promote"]
    /\ call' = StepRecord(c, "delete", "")
    /\ UNCHANGED <<braceCache, touched, inserted, braceTouched>>

\* patternCache.set(key, mm); return mm
GocPromote(c) ==
    /\ inflight[c].pc = "promote"
    /\ patternCache' = MapSet(patternCache, inflight[c].key, inflight[c].mm)
    /\ inflight' = [inflight EXCEPT ![c] = Idle]
    /\ call' = StepRecord(c, "return", "")
    /\ UNCHANGED <<braceCache, touched, inserted, braceTouched>>

\* mm = new Minimatch(pattern, options)
GocNew(c) ==
    /\ inflight[c].pc = "new"
    /\ \E r \in {Minimatch(inflight[c].pattern, inflight[c].options, braceCache)} :
         /\ inflight' = [inflight EXCEPT ![c] =
                IF r.threw # "" THEN Idle
                ELSE [inflight[c] EXCEPT !.pc = "size", !.mm = r.mm]]
         /\ call' = StepRecord(c, IF r.threw # "" THEN "return" ELSE "new",
                               r.threw)
         /\ braceCache' = r.braceCache
         /\ braceTouched' = BraceTouch(braceTouched, inflight[c].pattern,
                                       inflight[c].options.nobrace,
                                       braceCache, r.braceCache)
    /\ UNCHANGED <<patternCache, touched, inserted>>

\* if (patternCache.size >= CACHE_SIZE) delete the first key
GocEvict(c) ==
    /\ inflight[c].pc = "size"
    /\ patternCache' = cache_evict(patternCache)
    /\ inflight' = [inflight EXCEPT ![c].pc = "set"]
    /\ call' = StepRecord(c, "size", "")
    /\ UNCHANGED <<braceCache, touched, inserted, braceTouched>>

\* patternCache.set(key, mm); return mm
GocSet(c) ==
    /\ inflight[c].pc = "set"
    /\ patternCache' = MapSet(patternCache, inflight[c].key, inflight[c].mm)
    /\ inflight' = [inflight EXCEPT ![c] = Idle]
    /\ call' = StepRecord(c, "return", "")
    /\ UNCHANGED <<braceCache, touched, inserted, braceTouched>>

NextSteps ==
    \E c \in Callers :
        \/ GocEnter(c)
        \/ GocGet(c)
        \/ GocDelete(c)
        \/ GocPromote(c)
        \/ GocNew(c)
        \/ GocEvict(c)
        \/ GocSet(c)

SpecSteps == Init /\ [][NextSteps]_vars

(***************************************************************************)
(* Minimatch.matchOne on its own: the file and the pattern are drawn, the  *)
(* call is made full or partial.                                           *)
(***************************************************************************)
MaxFileSegments == 3

MaxPatternParts == 3

\* path segments: a name, the dot segments, a dotfile, the empty segment
\* a trailing separator leaves
MatchOneSegments == {<<"a">>, <<".">>, <<".", ".">>, <<".", "h">>, <<>>}

\* parsed parts: GLOBSTAR, the regular expression of '*', a string, false
MatchOneParts ==
    {parse(<<"*", "*">>, translateOptions(DefaultOptions)),
     parse(<<"*">>, translateOptions(DefaultOptions)),
     [type |-> "string", src |-> <<"a">>],
     [type |-> "false", src |-> <<"a">>]}

SeqsUpTo(S, n) == UNION {[1..k -> S] : k \in 0..n}

MatchOneOptions == {DefaultOptions, [DefaultOptions EXCEPT !.dot = TRUE]}

InitMatchOne ==
    /\ patternCache = <<>>
    /\ braceCache = <<>>
    /\ touched = <<>>
    /\ inserted = <<>>
    /\ braceTouched = <<>>
    /\ inflight = [c \in Callers |-> Idle]
    /\ \E file \in SeqsUpTo(MatchOneSegments, MaxFileSegments),
          pattern \in SeqsUpTo(MatchOneParts, MaxPatternParts),
          options \in MatchOneOptions :
         call = [NoCall EXCEPT !.op = "args", !.list = file,
                               !.parts = pattern, !.options = options]

MatchOneCall ==
    /\ call.op = "args"
    /\ \E partial \in BOOLEAN :
         \E r \in {matchOne(call.list, call.parts, partial, call.options)} :
            call' = [call EXCEPT !.op = "matchOne", !.partial = partial,
                                 !.ret = r.ret, !.swallowed = r.swallowed,
                                 !.depth = r.depth]
    /\ UNCHANGED <<patternCache, braceCache, touched, inserted, braceTouched,
                   inflight>>

NextMatchOne == MatchOneCall

SpecMatchOne == InitMatchOne /\ [][NextMatchOne]_vars

\* ------------------------------------------------------------------------
\* Properties.
\* ------------------------------------------------------------------------

\* C1: after any sequence of minimatch, filter, makeRe, match and clearCache
\* calls the compiled-pattern cache holds at most CACHE_SIZE entries
\* (getCacheSize() <= CACHE_SIZE).
C1_CacheBounded == getCacheSize(patternCache) <= CACHE_SIZE

\* a full cache from which a miss has just evicted an entry
C1_Witness == Len(patternCache) = CACHE_SIZE /\ call.evicted # <<>>

\* C2: a step that removes a key from the pattern cache without clearing it
\* is a miss on a full cache, removes a single key, and that key is the one
\* whose most recent touch (insertion or hit) is the oldest.
C2_EvictsLeastRecentlyTouched ==
    [][LET removed == Keys(patternCache) \ Keys(patternCache')
       IN  (removed # {} /\ patternCache' # <<>>)
           => /\ Len(patternCache) = CACHE_SIZE
              /\ Cardinality(removed) = 1
              /\ \A k \in removed : k = touched[1]]_vars

\* an eviction that spared the entry inserted first, because a hit had
\* promoted it
C2_Witness == call.evicted # <<>> /\ call.evicted # call.oldest

\* what minimatch(), filter(), makeRe() and match() compile when both caches
\* are empty: the instance built for the options of the last call
ColdInstance == Minimatch(call.pattern, call.options, <<>>).mm

\* the paths of the last call's list accepted by the instance that call used
CallMatches ==
    SelectSeq(call.list,
              LAMBDA f : Minimatch_match(call.mm, f, call.mm.partial))

\* C3: minimatch(s, p, o) returns the boolean it returns with empty caches,
\* whatever calls were made before it.
C3_WarmEqualsCold ==
    (call.op = "minimatch" /\ call.threw = "")
        => call.bool = minimatch(call.path, call.pattern, call.options,
                                 <<>>, <<>>).value

\* C4: the instance getOrCreateMatcher hands out was compiled for options
\* that agree with those of the call on everything compilation and matching
\* read: globParts, set, the matchers, the negation and platform fields, and
\* the option values match() and the list match read from the instance.
C4_InstanceFitsOptions ==
    (call.op \in {"minimatch", "filter", "makeRe", "match"} /\ call.key # <<>>)
        => /\ call.mm.globParts = ColdInstance.globParts
           /\ call.mm.set = ColdInstance.set
           /\ call.mm.matchers = ColdInstance.matchers
           /\ call.mm.negate = ColdInstance.negate
           /\ call.mm.isWindows = ColdInstance.isWindows
           /\ call.mm.windowsPathsNoEscape = ColdInstance.windowsPathsNoEscape
           /\ call.mm.partial = ColdInstance.partial
           /\ call.mm.options.dot = call.options.dot
           /\ call.mm.options.matchBase = call.options.matchBase
           /\ call.mm.options.flipNegate = call.options.flipNegate
           /\ call.mm.options.nonull = call.options.nonull

\* C6: when no path of the list matches, match(list, pattern, options)
\* returns [pattern] exactly when nonull is set in that call (and the empty
\* list otherwise), whatever calls were made before it.
C6_NonullOfThisCall ==
    (call.op = "match" /\ call.threw = "" /\ CallMatches = <<>>)
        => call.out = IF call.options.nonull THEN <<call.pattern>> ELSE <<>>

\* C7: a match(list, pattern, options) call with failglob set raises an
\* error whenever no path of the list matches, also when nonull is set: a
\* call that returns has found a match.
C7_FailglobRaises ==
    (call.op = "match" /\ call.options.failglob /\ call.threw = "")
        => CallMatches # <<>>

\* the limit a call configures: options.maxLength, or the built-in limit
ConfiguredMaxLength ==
    IF call.options.maxLength.kind = "number" THEN call.options.maxLength.n
    ELSE MAX_PATTERN_LENGTH

\* C5: whenever tryFastPath returns a boolean, that boolean is the result
\* of new Minimatch(pattern, options).match(path).
C5_FastPathAgrees ==
    (call.op = "full" /\ call.threw = "" /\ ~call.fast.isNull)
        => call.fast.value = call.bool

\* C8: the constructor and minimatch() reject with a TypeError every pattern
\* longer than the configured maxLength, whatever its shape.
C8_OverLimitRejected ==
    (call.op \in {"new", "minimatch"}
        /\ call.options.maxLength.kind \in {"undefined", "number"}
        /\ Len(call.pattern) > ConfiguredMaxLength)
        => call.threw = "TypeError"

\* C9: the constructor raises an error when options.maxLength is 0, a
\* negative number, NaN or Infinity.
C9_InvalidMaxLengthRejected ==
    (call.op = "new"
        /\ \/ call.options.maxLength.kind \in {"NaN", "Infinity"}
           \/ /\ call.options.maxLength.kind = "number"
              /\ call.options.maxLength.n <= 0)
        => call.threw # ""

\* the number of leading '!' of the last call's pattern, and the pattern
\* without them
BangCount == LeadRun(call.pattern, "!")

Stripped == SliceFrom(call.pattern, BangCount)

\* what an instance compiled from the stripped pattern answers for the
\* last call's path
StrippedResult ==
    Minimatch_match(Minimatch(Stripped, call.options, <<>>).mm, call.path,
                    call.options.partial)

\* the stripped pattern is empty or is a comment
StrippedShortCircuits ==
    \/ Stripped = <<>>
    \/ ~call.options.nocomment /\ Head(Stripped) = "#"

C11_FlipNegateRaw ==
    (call.op = "mm.match" /\ call.threw = "" /\ call.options.flipNegate
        /\ ~call.options.nonegate /\ call.mm.negate
        /\ ~StrippedShortCircuits)
        => call.bool = StrippedResult

\* C12: unless nocomment is set, a pattern whose first character after the
\* run of leading '!' is '#' is flagged as a comment and matches no path,
\* negated or not, through minimatch() and through Minimatch.match.
C12_CommentMatchesNothing ==
    (call.threw = "" /\ ~call.options.nocomment /\ ~call.options.nonegate
        /\ Stripped # <<>> /\ Head(Stripped) = "#")
        => /\ call.op \in {"new", "mm.match"} => call.mm.comment
           /\ call.op \in {"mm.match", "minimatch"} => ~call.bool

\* C13: unescape(escape(s, o), o) = s for every string s, in the backslash
\* mode and in the character-class mode.
C13_EscapeRoundTrip ==
    call.op = "unescape" => call.str = call.pattern

\* what braceExpand returns for the last call's arguments when the brace
\* cache is empty
ColdExpansion == braceExpand(call.pattern, call.options, <<>>).result

\* C14: braceExpand never throws and never returns more than
\* MAX_EXPANSION_LENGTH strings, whichever path handles the pattern.
C14_ExpansionCapped ==
    call.op = "braceExpand"
        => call.threw = "" /\ Len(call.out) <= MAX_EXPANSION_LENGTH

\* C15: the list braceExpand returns holds no string twice.
C15_NoDuplicates ==
    call.op = "braceExpand"
        => \A i, j \in 1..Len(call.out) :
               call.out[i] = call.out[j] => i = j

\* C16: the array braceExpand returns is shared with no cache entry, and
\* whatever the caller did to arrays returned earlier, a call returns what
\* it returns on an empty cache.
C16_MutationIsolated ==
    /\ call.op \in {"braceExpand", "mutate"} => call.shares = <<>>
    /\ call.op = "braceExpand" => call.out = ColdExpansion

\* a cache hit for the pattern whose returned array the caller changed last
C16_Witness ==
    /\ call.op = "braceExpand" /\ call.hit
    /\ call.mutated = call.pattern
    /\ call.out = ColdExpansion

\* C17: the entry a braceExpand call evicts from the full brace cache is the
\* least recently used one, a hit counting as a use.
C17_BraceEvictsLeastRecentlyUsed ==
    [][LET removed == Keys(braceCache) \ Keys(braceCache')
       IN  removed # {}
             => /\ Len(braceCache) = BRACE_CACHE_SIZE
                /\ removed = {braceTouched[1]}]_vars

\* C18: after clearCache() getCacheSize() is 0 and neither cache holds an
\* entry.
C18_ClearEmptiesBothCaches ==
    call.op = "clearCache"
        => /\ getCacheSize(patternCache) = 0
           /\ patternCache = <<>>
           /\ braceCache = <<>>

\* path p is a leading run of the segments of path full
IsLeadingRun(p, full) ==
    /\ p # <<>>
    /\ Len(SplitSlash(p)) <= Len(SplitSlash(full))
    /\ SubSeq(SplitSlash(full), 1, Len(SplitSlash(p))) = SplitSlash(p)

\* C19: match(path, true) returns true for every path that is a leading run
\* of segments of some path the pattern matches.
C19_PartialKeepsPrefixes ==
    (call.op = "mm.match(path, true)"
        /\ \E full \in InstancePaths :
              /\ IsLeadingRun(call.path, full)
              /\ Minimatch_match(call.mm, full, FALSE))
        => call.bool

\* the characters that make a pattern more than a literal string
GlobCharacters == {"*", "?", "[", "]", "{", "}", "(", ")", "!", "+", "@", "\\"}

\* C20: hasMagic() returns false for every pattern whose segments are all
\* literal strings without glob characters, magicalBraces being unset.
C20_LiteralHasNoMagic ==
    (call.op = "mm.hasMagic" /\ ~call.options.magicalBraces
        /\ \A i \in 1..Len(call.pattern) :
               call.pattern[i] \notin GlobCharacters)
        => ~call.bool

\* the last call reported a match
ReportedMatch ==
    \/ call.op = "tryFastPath" /\ ~call.fast.isNull /\ call.fast.value
    \/ call.op \in {"full", "mm.match", "minimatch"}
         /\ call.threw = "" /\ call.bool

\* C21: a path whose final segment is '.' or '..' is never reported as
\* matching a non-negated pattern, by the fast path or by Minimatch.match,
\* unless the pattern's basename equals that segment (or the pattern is '.*'
\* and the segment is '..'), dot or no dot.
C21_DotSegmentsNeverMatch ==
    (ReportedMatch /\ call.pattern # <<>> /\ Head(call.pattern) # "!"
        /\ match_basename(call.path) \in {<<".">>, <<".", ".">>})
        => \/ match_basename(call.pattern) = match_basename(call.path)
           \/ /\ call.pattern = <<".", "*">>
              /\ match_basename(call.path) = <<".", ".">>

\* C22: once constructed, an instance's fields never change, whatever is
\* called on it and whatever the caller does to the options object it
\* passed; only regexp may go from null to its memoized value.
C22_InstanceImmutable ==
    [][(call.op # "args" /\ call'.op # "args"
           /\ call.threw = "" /\ call'.threw = "")
         => [call'.mm EXCEPT !.regexp = call.mm.regexp] = call.mm]_vars

\* the last call left an instance in call.mm
HoldsInstance ==
    /\ call.op \in {"new", "mm.match", "mm.match(path, true)", "mm.hasMagic",
                    "options.x = true"}
    /\ call.threw = ""

\* C23: for every constructed Minimatch globParts, the list of whole-string
\* matchers and globSet have the same length.
C23_ParallelLists ==
    HoldsInstance
        => /\ Len(call.mm.globParts) = Len(call.mm.globSet)
           /\ Len(call.mm.matchers) = Len(call.mm.globSet)

\* two alternatives, one of which cancels out in preprocess
C23_Witness ==
    /\ HoldsInstance
    /\ Len(call.mm.globSet) = 2
    /\ \E i \in 1..2 : call.mm.globParts[i] = << <<>> >>
    /\ Len(call.mm.globParts) = 2 /\ Len(call.mm.matchers) = 2

\* a call of getOrCreateMatcher has just returned or thrown
CallEnded == call.op = "return"

\* C24 as stated: whatever the interleaving of two callers' map operations,
\* the pattern cache never holds more than CACHE_SIZE entries.
C24_GuardedUnderInterleaving == Len(patternCache) <= CACHE_SIZE

\* C24: when every call of getOrCreateMatcher runs to completion before the
\* next one starts, the walk through get, delete, size test, eviction and set
\* leaves the pattern cache as the whole call does in one step, with at most
\* CACHE_SIZE entries; the code itself keeps no two callers apart.
C24_AtomicWhenRunToCompletion ==
    (CallEnded /\ ~call.overlapped)
        => /\ patternCache =
                getOrCreateMatcher(call.pattern, call.options, call.before,
                                   <<>>).cache
           /\ Len(patternCache) <= CACHE_SIZE

C24_Witness ==
    /\ CallEnded
    /\ ~call.overlapped
    /\ call.threw = ""
    /\ Len(call.before) = CACHE_SIZE
    /\ ~MapHas(call.before, call.key)
    /\ MapHas(patternCache, call.key)
    /\ ~MapHas(patternCache, call.before[1].key)

\* matchOne has been called
MatchOneDone == call.op = "matchOne"

\* '.', '..', or a segment starting with '.' while dot is unset
DotSegment(f) ==
    \/ f \in {<<".">>, <<".", ".">>}
    \/ ~call.options.dot /\ f # <<>> /\ Head(f) = "."

\* the walk reaches the part at position g (from 1) of the pattern with a
\* file segment to look at: every part before it is a string or a regular
\* expression that accepts the file segment at the same position
WalkReaches(g) ==
    /\ g <= Len(call.list)
    /\ g <= Len(call.parts)
    /\ \A i \in 1..(g - 1) :
          /\ call.parts[i].type \in {"string", "regex"}
          /\ matchOne_hit(call.parts[i], call.list[i], call.options)

\* C25: when the walk reaches a GLOBSTAR part that is not the last part, a
\* full matchOne returns true exactly when for some k from 0 up, less than
\* the number of file segments left, none of the k skipped segments is a dot
\* segment and matchOne succeeds on the file after them against the pattern
\* after the GLOBSTAR.
C25_GlobstarSearch ==
    \A g \in 1..MaxPatternParts :
        (MatchOneDone /\ ~call.partial /\ WalkReaches(g)
            /\ call.parts[g].type = "GLOBSTAR" /\ g < Len(call.parts))
        => ((call.ret = "true") <=>
               \E k \in 0..(Len(call.list) - g) :
                  /\ \A j \in g..(g + k - 1) : ~DotSegment(call.list[j])
                  /\ matchOne(SliceFrom(call.list, g - 1 + k),
                              SliceFrom(call.parts, g),
                              FALSE, call.options).ret = "true")

C25_Witness ==
    /\ MatchOneDone /\ ~call.partial /\ call.ret = "true"
    /\ WalkReaches(2)
    /\ call.parts[2].type = "GLOBSTAR" /\ Len(call.parts) = 3
    /\ call.swallowed # <<>>

\* C26: when matchOne returns true, in full or partial mode, no file segment
\* a GLOBSTAR part consumed, last part or not, is '.' or '..' or starts
\* with '.' while dot is unset.
C26_GlobstarSkipsNoDotSegment ==
    (MatchOneDone /\ call.ret = "true")
        => \A i \in 1..Len(call.swallowed) : ~DotSegment(call.swallowed[i])

C26_Witness ==
    /\ MatchOneDone /\ call.ret = "true" /\ call.options.dot
    /\ \E i \in 1..Len(call.swallowed) : call.swallowed[i] = <<".", "h">>
    /\ Len(call.swallowed) = 2

\* the lock-step walk ends: no GLOBSTAR and no false part is met and every
\* pair of part and segment is a hit
WalkEnds ==
    \A i \in 1..Len(call.parts) :
        i <= Len(call.list)
            => /\ call.parts[i].type \in {"string", "regex"}
               /\ matchOne_hit(call.parts[i], call.list[i], call.options)

\* C27: matchOne returns a boolean and never reaches its final throw; when
\* the walk ends with both sequences exhausted the result is true, with only
\* the file exhausted it is the partial flag, and with only the pattern
\* exhausted it is true exactly when one file segment is left and that
\* segment is the empty string.
C27_WalkEndCases ==
    MatchOneDone
        => /\ call.ret \in {"true", "false"}
           /\ WalkEnds =>
                (call.ret = "true") <=>
                    IF Len(call.list) = Len(call.parts) THEN TRUE
                    ELSE IF Len(call.list) < Len(call.parts) THEN call.partial
                    ELSE /\ Len(call.list) = Len(call.parts) + 1
                         /\ call.list[Len(call.list)] = <<>>

C27_Witness ==
    /\ MatchOneDone /\ WalkEnds /\ call.ret = "false"
    /\ Len(call.list) = Len(call.parts) + 1
    /\ Len(call.parts) > 0
    /\ call.list[Len(call.list)] # <<>>

\* C28: matchOne returns, and the nesting of its recursive calls is never
\* deeper than the number of segments of the file.
C28_DepthWithinFileSegments ==
    MatchOneDone => call.ret # "throw" /\ call.depth <= Len(call.list)

\* C29: if the full matchOne(F, P, false) is true, the partial
\* matchOne(F', P, true) is true for every non-empty prefix F' of F, F too.
C29_PartialPrefixClosed ==
    (MatchOneDone /\ ~call.partial /\ call.ret = "true")
        => \A n \in 1..Len(call.list) :
              matchOne(SubSeq(call.list, 1, n), call.parts, TRUE,
                       call.options).ret = "true"

C29_Witness ==
    /\ MatchOneDone /\ ~call.partial /\ call.ret = "true"
    /\ Len(call.list) = 3 /\ Len(call.parts) = 3
    /\ \E i \in 1..2 : call.parts[i].type = "GLOBSTAR"
    /\ matchOne(SubSeq(call.list, 1, 1), call.parts, FALSE,
                call.options).ret = "false"

\* C30: a call whose compilation fails inside getOrCreateMatcher (the
\* constructor throws for an over-long pattern) leaves the pattern cache as
\* it was: no entry added, evicted or reordered, getCacheSize() unchanged.
C30_FailedCompileKeepsCache ==
    [][(call'.op = "minimatch" /\ call'.threw # "")
          => /\ patternCache' = patternCache
             /\ getCacheSize(patternCache') = getCacheSize(patternCache)]_vars

C30_Witness ==
    /\ call.op = "minimatch"
    /\ call.threw # ""
    /\ call.pattern = OverLimit
    /\ tryFastPath(call.path, call.pattern, call.options).isNull
    /\ getCacheSize(patternCache) = CACHE_SIZE

====
